---- MODULE Spec2Model ----
(***************************************************************************)
(* Model of the constant-value evaluator of go-pkgz/enum                   *)
(* (internal/generator): New, Parse, parseFile, parseConstBlock and the    *)
(* expression evaluation they rely on.                                     *)
(*                                                                         *)
(* Strings that the code inspects character by character (identifier       *)
(* names, literal texts) are sequences of one-character strings.           *)
(***************************************************************************)
EXTENDS Integers, Sequences, FiniteSets, TLC

\* ------------------------------------------------------------------ bounds
\* size of the parsed directory: its files, const blocks and value specs
\* (declaration lines) together
MaxSize == 6
\* total number of value specs that carry an explicit expression
MaxExplicit == 2
\* number of source files in the parsed directory
MaxFiles == 2
\* largest counter value handed to EvaluateBinaryExpr when called directly
MaxIota == 3

\* ---------------------------------------------------------- syntax (go/ast)
\* token.Token values used by the evaluator (REM stands for any operator the
\* evaluator does not support)
ADD == "+"
SUB == "-"
MUL == "*"
QUO == "/"
REM == "%"

NoExpr == [node |-> "nil"]
Ident(name) == [node |-> "Ident", Name |-> name]
BasicLit(kind, text) == [node |-> "BasicLit", Kind |-> kind, Value |-> text]
BinaryExpr(x, op, y) == [node |-> "BinaryExpr", X |-> x, Op |-> op, Y |-> y]
UnaryExpr(op, x) == [node |-> "UnaryExpr", Op |-> op, X |-> x]
ParenExpr(x) == [node |-> "ParenExpr", X |-> x]

iota == Ident("iota")

\* ------------------------------------------------------- character tables
DecDigits == <<"0", "1", "2", "3", "4", "5", "6", "7", "8", "9">>
HexDigits == DecDigits \o <<"a", "b", "c", "d", "e", "f">>

IsDecDigit(c) == \E i \in 1..Len(DecDigits) : DecDigits[i] = c
IsHexDigit(c) == \E i \in 1..Len(HexDigits) : HexDigits[i] = c
DigitVal(c) == (CHOOSE i \in 1..Len(HexDigits) : HexDigits[i] = c) - 1

\* the code points of the characters type names are made of; a character
\* outside ASCII is written U+XXXX
CodePoint(c) ==
  CASE c = "S" -> 83
    [] c = "s" -> 115
    [] c = "t" -> 116
    [] c = "x" -> 120
    [] c = "U+00E9" -> 233
    [] c = "U+4E2D" -> 20013

\* the first byte of the UTF-8 encoding of a code point
FirstByte(cp) ==
  IF cp < 128 THEN cp
  ELSE IF cp < 2048 THEN 192 + cp \div 64
  ELSE IF cp < 65536 THEN 224 + cp \div 4096
  ELSE 240 + cp \div 262144

\* unicode.IsLower on a rune below 256 (the Latin-1 table)
IsLower(r) ==
  \/ r >= 97 /\ r <= 122
  \/ r = 181
  \/ r >= 223 /\ r <= 246
  \/ r >= 248 /\ r <= 255

\* code points of the plain (one byte, printable) source characters used
AsciiCode(c) ==
  CASE c = "A" -> 65
    [] c = "B" -> 66
    [] c = "a" -> 97
    [] c = "0" -> 48
    [] OTHER -> 63

\* strings.HasPrefix
HasPrefix(s, prefix) ==
  /\ Len(s) >= Len(prefix)
  /\ SubSeq(s, 1, Len(prefix)) = prefix

\* ------------------------------------------------------------- arithmetic
Abs(n) == IF n < 0 THEN -n ELSE n

\* division rounding toward minus infinity instead
Quo_Floor(a, b) == a \div b

\* Go's integer division: truncates toward zero (b # 0)
Quo(a, b) ==
  IF (a >= 0) = (b > 0) THEN Abs(a) \div Abs(b) ELSE -(Abs(a) \div Abs(b))

\* ------------------------------------------------ fmt.Sscanf(text, "%d", &v)
\* length of the longest prefix of s made of decimal digits and underscores
\* (fmt's scanNumber accepts "0123456789_" for the verb d)
RECURSIVE NumberRun(_)
NumberRun(s) ==
  IF s = <<>> \/ ~(IsDecDigit(Head(s)) \/ Head(s) = "_") THEN 0
  ELSE 1 + NumberRun(Tail(s))

\* strconv.ParseInt(tok, 10, 64) on an unsigned run of digits; an underscore
\* is a syntax error in base 10
RECURSIVE ParseDigits(_, _)
ParseDigits(s, acc) ==
  IF s = <<>> THEN [val |-> acc, err |-> FALSE]
  ELSE IF ~IsDecDigit(Head(s)) THEN [val |-> 0, err |-> TRUE]
  ELSE ParseDigits(Tail(s), acc * 10 + DigitVal(Head(s)))

\* the scanned token: "expected integer" when it has no digit, else what
\* ParseInt makes of it
ScanToken(tok) ==
  IF tok = <<>> THEN [val |-> 0, err |-> TRUE] ELSE ParseDigits(tok, 0)

Negate(p) == IF p.err THEN [val |-> 0, err |-> TRUE] ELSE [val |-> -p.val, err |-> FALSE]

ScanUnsigned(text) == ScanToken(SubSeq(text, 1, NumberRun(text)))

\* Sscanf with the single verb %d: optional sign, then the digit run; input
\* left over after the run is not an error
SscanfInt(text) ==
  IF text # <<>> /\ Head(text) = "-" THEN Negate(ScanUnsigned(Tail(text)))
  ELSE IF text # <<>> /\ Head(text) = "+" THEN ScanUnsigned(Tail(text))
  ELSE ScanUnsigned(text)

\* ------------------------------------------------ strconv.Unquote ('...')
\* value of a run of hex digits
RECURSIVE HexVal(_, _)
HexVal(s, acc) ==
  IF s = <<>> THEN acc ELSE HexVal(Tail(s), acc * 16 + DigitVal(Head(s)))

AllHex(s) == \A i \in 1..Len(s) : IsHexDigit(s[i])

BadChar == [err |-> TRUE, r |-> 0, raw |-> FALSE, n |-> 0]
GoodChar(r, raw, n) == [err |-> FALSE, r |-> r, raw |-> raw, n |-> n]

\* \uXXXX: a surrogate half is not a character
UnicodeEscape(v) == IF v >= 55296 /\ v < 57344 THEN BadChar ELSE GoodChar(v, FALSE, 6)

\* strconv.UnquoteChar at the head of s inside single quotes: the rune (or
\* raw byte), whether it is a raw byte from \x, and the number of source
\* characters consumed
UnquoteChar(s) ==
  IF s = <<>> \/ Head(s) = "'" THEN BadChar
  ELSE IF Head(s) # "\\" THEN GoodChar(AsciiCode(Head(s)), FALSE, 1)
  ELSE IF Len(s) < 2 THEN BadChar
  ELSE CASE s[2] = "n" -> GoodChar(10, FALSE, 2)
         [] s[2] = "'" -> GoodChar(39, FALSE, 2)
         [] s[2] = "x" ->
              IF Len(s) >= 4 /\ AllHex(SubSeq(s, 3, 4))
              THEN GoodChar(HexVal(SubSeq(s, 3, 4), 0), TRUE, 4)
              ELSE BadChar
         [] s[2] = "u" ->
              IF Len(s) >= 6 /\ AllHex(SubSeq(s, 3, 6))
              THEN UnicodeEscape(HexVal(SubSeq(s, 3, 6), 0))
              ELSE BadChar
         [] OTHER -> BadChar

BadString == [err |-> TRUE, r |-> 0, invalid |-> FALSE]

\* a single-quoted string holds exactly one character; u is the character
\* unquoted at the head of inner.  invalid: the string is one raw byte
\* >= 0x80, which is not valid UTF-8
SingleChar(inner, u) ==
  IF u.err \/ u.n # Len(inner) THEN BadString
  ELSE [err |-> FALSE, r |-> u.r, invalid |-> u.raw /\ u.r >= 128]

\* strconv.Unquote of a single-quoted literal
Unquote(text) ==
  IF Len(text) < 2 \/ Head(text) # "'" \/ text[Len(text)] # "'" THEN BadString
  ELSE SingleChar(SubSeq(text, 2, Len(text) - 1),
                  UnquoteChar(SubSeq(text, 2, Len(text) - 1)))

RuneError == 65533

\* utf8.DecodeRuneInString of the unquoted string u and the checks on it
DecodeRune(u) ==
  IF u.err THEN [val |-> 0, err |-> TRUE]
  ELSE IF u.invalid \/ u.r = RuneError THEN [val |-> 0, err |-> TRUE]
  ELSE [val |-> u.r, err |-> FALSE]

\* ------------------------------------------------------ ConvertLiteralToInt
ConvertLiteralToInt(lit) ==
  CASE lit.Kind = "INT" -> SscanfInt(lit.Value)
    [] lit.Kind = "CHAR" -> DecodeRune(Unquote(lit.Value))
    [] OTHER -> [val |-> 0, err |-> TRUE]

\* ------------------------------------------------------ EvaluateBinaryExpr
\* a literal operand, c being what ConvertLiteralToInt returned for it
LitOperand(c) == [val |-> c.val, isIota |-> FALSE, err |-> c.err]

\* an identifier other than iota read as 0 instead of being rejected
EvalOperand_IdentAsZero(e, iotaVal) ==
  CASE e.node = "Ident" ->
         IF e.Name = "iota"
         THEN [val |-> iotaVal, isIota |-> TRUE, err |-> FALSE]
         ELSE [val |-> 0, isIota |-> FALSE, err |-> FALSE]
    [] e.node = "BasicLit" -> LitOperand(ConvertLiteralToInt(e))
    [] OTHER -> [val |-> 0, isIota |-> FALSE, err |-> TRUE]

\* one side of the expression: its value, whether it is iota, whether it is
\* unsupported
EvalOperand(e, iotaVal) ==
  CASE e.node = "Ident" ->
         IF e.Name = "iota"
         THEN [val |-> iotaVal, isIota |-> TRUE, err |-> FALSE]
         ELSE [val |-> 0, isIota |-> FALSE, err |-> TRUE]
    [] e.node = "BasicLit" -> LitOperand(ConvertLiteralToInt(e))
    [] OTHER -> [val |-> 0, isIota |-> FALSE, err |-> TRUE]

EvalFail == [value |-> 0, usesIota |-> FALSE, err |-> TRUE]
EvalOk(v, left, right) ==
  [value |-> v, usesIota |-> left.isIota \/ right.isIota, err |-> FALSE]

\* a zero divisor yields the numerator instead of an error
EvalSides_DivZeroKeepsLeft(op, left, right) ==
  IF left.err THEN EvalFail
  ELSE IF right.err THEN EvalFail
  ELSE CASE op = ADD -> EvalOk(left.val + right.val, left, right)
         [] op = SUB -> EvalOk(left.val - right.val, left, right)
         [] op = MUL -> EvalOk(left.val * right.val, left, right)
         [] op = QUO ->
              IF right.val = 0 THEN EvalOk(left.val, left, right)
              ELSE EvalOk(Quo(left.val, right.val), left, right)
         [] OTHER -> EvalFail

\* the operator switch without its default case: any other operator is
\* taken for a multiplication
EvalSides_NoDefault(op, left, right) ==
  IF left.err THEN EvalFail
  ELSE IF right.err THEN EvalFail
  ELSE CASE op = ADD -> EvalOk(left.val + right.val, left, right)
         [] op = SUB -> EvalOk(left.val - right.val, left, right)
         [] op = QUO ->
              IF right.val = 0 THEN EvalFail
              ELSE EvalOk(Quo(left.val, right.val), left, right)
         [] OTHER -> EvalOk(left.val * right.val, left, right)

\* EvaluateBinaryExpr once both sides were looked at: the early returns on
\* an unsupported side, then the switch on the operator
EvalSides(op, left, right) ==
  IF left.err THEN EvalFail
  ELSE IF right.err THEN EvalFail
  ELSE CASE op = ADD -> EvalOk(left.val + right.val, left, right)
         [] op = SUB -> EvalOk(left.val - right.val, left, right)
         [] op = MUL -> EvalOk(left.val * right.val, left, right)
         [] op = QUO ->
              IF right.val = 0 THEN EvalFail
              ELSE EvalOk(Quo(left.val, right.val), left, right)
         [] OTHER -> EvalFail

EvaluateBinaryExpr(expr, iotaVal) ==
  EvalSides(expr.Op, EvalOperand(expr.X, iotaVal), EvalOperand(expr.Y, iotaVal))

\* ------------------------------------------------------- walker (per block)
exprTypeNone == "exprTypeNone"
exprTypePlain == "exprTypePlain"
exprTypeIota == "exprTypeIota"
exprTypeIotaOp == "exprTypeIotaOp"

\* *iotaOperation: nil, or {op, operand, iotaOnLeft}
NilOp == [nil |-> TRUE, op |-> "", operand |-> 0, iotaOnLeft |-> FALSE]
iotaOperation(op, operand, iotaOnLeft) ==
  [nil |-> FALSE, op |-> op, operand |-> operand, iotaOnLeft |-> iotaOnLeft]

\* &constParseState{}
constParseState ==
  [iotaVal |-> 0, lastExprType |-> exprTypeNone, lastValue |-> 0,
   iotaOp |-> NilOp]

\* the state of the block before kept for the next block
NewBlockState_Carried(prev) == prev

\* state := &constParseState{} at the start of parseConstBlock: whatever the
\* walker held for the block before is dropped
NewBlockState(prev) == constParseState

IsIotaIdent(e) == e.node = "Ident" /\ e.Name = "iota"

\* the converted literal, or the zero value op.operand was created with
ValueOrZero(c) == IF c.err THEN 0 ELSE c.val

\* operand of the stored operation: the literal on the other side when it
\* converts
OperandOf(e) ==
  IF e.node = "BasicLit" THEN ValueOrZero(ConvertLiteralToInt(e)) ELSE 0

\* processBinaryExpr, r being what EvaluateBinaryExpr returned
\* the operation built before the error of the evaluation is looked at
BinaryResult_StoresOnError(expr, r) ==
  IF ~r.usesIota /\ ~IsIotaIdent(expr.X) /\ ~IsIotaIdent(expr.Y)
  THEN [val |-> IF r.err THEN 0 ELSE r.value, op |-> NilOp]
  ELSE IF IsIotaIdent(expr.X)
    THEN [val |-> IF r.err THEN 0 ELSE r.value,
          op |-> iotaOperation(expr.Op, OperandOf(expr.Y), TRUE)]
  ELSE [val |-> IF r.err THEN 0 ELSE r.value,
        op |-> iotaOperation(expr.Op, OperandOf(expr.X), FALSE)]

BinaryResult(expr, r) ==
  IF r.err THEN [val |-> 0, op |-> NilOp]
  ELSE IF ~r.usesIota THEN [val |-> r.value, op |-> NilOp]
  ELSE IF IsIotaIdent(expr.X)
    THEN [val |-> r.value,
          op |-> iotaOperation(expr.Op, OperandOf(expr.Y), TRUE)]
  ELSE IF IsIotaIdent(expr.Y)
    THEN [val |-> r.value,
          op |-> iotaOperation(expr.Op, OperandOf(expr.X), FALSE)]
  ELSE [val |-> r.value, op |-> iotaOperation(expr.Op, 0, FALSE)]

processBinaryExpr(expr, state) ==
  BinaryResult(expr, EvaluateBinaryExpr(expr, state.iotaVal))

\* subtraction replayed as if iota were always the left operand
applyIotaOperation_SubLeft(op, iotaVal) ==
  IF op.nil THEN iotaVal
  ELSE CASE op.op = ADD -> iotaVal + op.operand
         [] op.op = SUB -> iotaVal - op.operand
         [] op.op = MUL -> iotaVal * op.operand
         [] op.op = QUO ->
              IF op.operand # 0 /\ op.iotaOnLeft THEN Quo(iotaVal, op.operand)
              ELSE IF op.operand # 0 /\ iotaVal # 0
                THEN Quo(op.operand, iotaVal)
              ELSE 0
         [] OTHER -> iotaVal

applyIotaOperation(op, iotaVal) ==
  IF op.nil THEN iotaVal
  ELSE CASE op.op = ADD -> iotaVal + op.operand
         [] op.op = SUB ->
              IF op.iotaOnLeft THEN iotaVal - op.operand
              ELSE op.operand - iotaVal
         [] op.op = MUL -> iotaVal * op.operand
         [] op.op = QUO ->
              IF op.operand # 0 /\ op.iotaOnLeft THEN Quo(iotaVal, op.operand)
              ELSE IF op.operand # 0 /\ iotaVal # 0
                THEN Quo(op.operand, iotaVal)
              ELSE 0
         [] OTHER -> iotaVal

\* the state after an expression was recognised
Recognised(state, type, val, op) ==
  [val |-> val,
   state |-> [state EXCEPT !.lastExprType = type, !.lastValue = val,
                           !.iotaOp = op]]

\* the fallback recorded as the plain value 0
Fallback_RecordsZero(state) == Recognised(state, exprTypePlain, 0, NilOp)

\* the final "return 0": nothing is written to the state
Fallback(state) == [val |-> 0, state |-> state]

\* a literal recorded without resetting state.iotaOp
ExplicitLiteral_KeepsOp(c, state) ==
  IF ~c.err THEN Recognised(state, exprTypePlain, c.val, state.iotaOp)
  ELSE Fallback(state)

\* case *ast.BasicLit, c being what ConvertLiteralToInt returned
ExplicitLiteral(c, state) ==
  IF ~c.err THEN Recognised(state, exprTypePlain, c.val, NilOp)
  ELSE Fallback(state)

\* case *ast.UnaryExpr on a literal, c being what ConvertLiteralToInt returned
ExplicitNegated(c, state) ==
  IF ~c.err THEN Recognised(state, exprTypePlain, -c.val, NilOp)
  ELSE Fallback(state)

\* a binary expression without iota is recorded only when its value is not 0
ExplicitBinary_NonZeroOnly(b, state) ==
  IF ~b.op.nil THEN Recognised(state, exprTypeIotaOp, b.val, b.op)
  ELSE IF b.val # 0 THEN Recognised(state, exprTypePlain, b.val, NilOp)
  ELSE Fallback(state)

\* case *ast.BinaryExpr, b being what processBinaryExpr returned
ExplicitBinary(b, state) ==
  IF ~b.op.nil THEN Recognised(state, exprTypeIotaOp, b.val, b.op)
  ELSE Recognised(state, exprTypePlain, b.val, NilOp)

processExplicitValue(expr, state) ==
  CASE expr.node = "Ident" ->
         IF expr.Name = "iota"
         THEN Recognised(state, exprTypeIota, state.iotaVal, NilOp)
         ELSE Fallback(state)
    [] expr.node = "BasicLit" ->
         ExplicitLiteral(ConvertLiteralToInt(expr), state)
    [] expr.node = "BinaryExpr" ->
         ExplicitBinary(processBinaryExpr(expr, state), state)
    [] expr.node = "UnaryExpr" ->
         IF expr.Op = SUB /\ expr.X.node = "BasicLit"
         THEN ExplicitNegated(ConvertLiteralToInt(expr.X), state)
         ELSE Fallback(state)
    [] OTHER -> Fallback(state)

\* a continuation after plain iota repeats the last value
processImplicitValue_RepeatLast(state) ==
  CASE state.lastExprType = exprTypeIotaOp ->
         applyIotaOperation(state.iotaOp, state.iotaVal)
    [] OTHER -> state.lastValue

processImplicitValue(state) ==
  CASE state.lastExprType = exprTypeIota -> state.iotaVal
    [] state.lastExprType = exprTypeIotaOp ->
         applyIotaOperation(state.iotaOp, state.iotaVal)
    [] OTHER -> state.lastValue

\* index counts from 1 here
processConstValue(vspec, index, state) ==
  IF index <= Len(vspec.Values) /\ vspec.Values[index] # NoExpr
  THEN processExplicitValue(vspec.Values[index], state)
  ELSE [val |-> processImplicitValue(state), state |-> state]

\* strings.TrimSpace, strings.TrimPrefix and strings.Split(s, ","), a string
\* being the sequence of its characters
RECURSIVE TrimSpace(_)
TrimSpace(s) ==
  IF s = <<>> THEN s
  ELSE IF Head(s) = " " THEN TrimSpace(Tail(s))
  ELSE IF s[Len(s)] = " " THEN TrimSpace(SubSeq(s, 1, Len(s) - 1))
  ELSE s

TrimPrefix(s, prefix) ==
  IF HasPrefix(s, prefix) THEN SubSeq(s, Len(prefix) + 1, Len(s)) ELSE s

RECURSIVE Split(_, _)
Split(s, piece) ==
  IF s = <<>> THEN <<piece>>
  ELSE IF Head(s) = "," THEN <<piece>> \o Split(Tail(s), <<>>)
  ELSE Split(Tail(s), Append(piece, Head(s)))

AliasMarker == <<"e", "n", "u", "m", ":", "a", "l", "i", "a", "s", "=">>

\* the trimmed, non-empty pieces of the alias list
RECURSIVE Trimmed(_)
Trimmed(pieces) ==
  IF pieces = <<>> THEN <<>>
  ELSE IF TrimSpace(Head(pieces)) # <<>>
    THEN <<TrimSpace(Head(pieces))>> \o Trimmed(Tail(pieces))
  ELSE Trimmed(Tail(pieces))

\* comment.List holds the text of each comment of the group and is empty for
\* a nil group; the empty result stands for nil
RECURSIVE parseAliasComment(_)
parseAliasComment(comment) ==
  IF comment.List = <<>> THEN <<>>
  ELSE IF HasPrefix(TrimSpace(TrimPrefix(Head(comment.List), <<"/", "/">>)),
                    AliasMarker)
    THEN Trimmed(Split(TrimPrefix(
                         TrimSpace(TrimPrefix(Head(comment.List),
                                              <<"/", "/">>)),
                         AliasMarker), <<>>))
  ELSE parseAliasComment([List |-> Tail(comment.List)])

\* g.values[name.Name] = &constValue{value: enumValue, pos: name.Pos(),
\* aliases: aliases}, r being what processConstValue returned
Store(values, name, r, aliases) ==
  [state |-> r.state,
   values |-> [n \in (DOMAIN values) \cup {name.Name} |->
                 IF n = name.Name
                 THEN [value |-> r.val, pos |-> name.NamePos,
                       aliases |-> aliases]
                 ELSE values[n]]]

Underscore == <<"_">>

\* legacy filter: the whole spec is judged by its first name
NameStep_FirstNameFilter(vspec, i, typeName, acc) ==
  IF vspec.Names[i].Name = Underscore
     \/ ~HasPrefix(vspec.Names[1].Name, typeName)
  THEN acc
  ELSE Store(acc.values, vspec.Names[i],
             processConstValue(vspec, i, acc.state),
             parseAliasComment(vspec.Comment))

\* the expression of a skipped name evaluated all the same, its value dropped
NameStep_EvaluatesSkipped(vspec, i, typeName, acc) ==
  IF vspec.Names[i].Name = Underscore
     \/ ~HasPrefix(vspec.Names[i].Name, typeName)
  THEN [state |-> processConstValue(vspec, i, acc.state).state,
        values |-> acc.values]
  ELSE Store(acc.values, vspec.Names[i],
             processConstValue(vspec, i, acc.state),
             parseAliasComment(vspec.Comment))

\* the body of the loop over vspec.Names for the name at index i; acc holds
\* the parse state and g.values
NameStep(vspec, i, typeName, acc) ==
  IF vspec.Names[i].Name = Underscore THEN acc
  ELSE IF ~HasPrefix(vspec.Names[i].Name, typeName) THEN acc
  ELSE Store(acc.values, vspec.Names[i],
             processConstValue(vspec, i, acc.state),
             parseAliasComment(vspec.Comment))

\* the loop over vspec.Names, from index i on
RECURSIVE NamesLoop(_, _, _, _)
NamesLoop(vspec, i, typeName, acc) ==
  IF i > Len(vspec.Names) THEN acc
  ELSE NamesLoop(vspec, i + 1, typeName, NameStep(vspec, i, typeName, acc))

\* state.iotaVal++
NextIota(acc) == [acc EXCEPT !.state.iotaVal = @ + 1]

\* the counter advanced once per name bound on the line
SpecLoopBody_TickPerName(vspec, typeName, state, values) ==
  [NamesLoop(vspec, 1, typeName, [state |-> state, values |-> values])
     EXCEPT !.state.iotaVal = @ + Len(vspec.Names)]

\* the counter advanced only by the lines that put a name into g.values
SpecLoopBody_RetainedOnly(vspec, typeName, state, values) ==
  IF \E i \in 1..Len(vspec.Names) :
       vspec.Names[i].Name # Underscore
       /\ HasPrefix(vspec.Names[i].Name, typeName)
  THEN NextIota(NamesLoop(vspec, 1, typeName,
                          [state |-> state, values |-> values]))
  ELSE NamesLoop(vspec, 1, typeName, [state |-> state, values |-> values])

\* one iteration of the loop over decl.Specs for a value spec that binds at
\* least one name, the trailing state.iotaVal++ included
SpecLoopBody(vspec, typeName, state, values) ==
  NextIota(NamesLoop(vspec, 1, typeName, [state |-> state, values |-> values]))

\* the loop over decl.Specs
RECURSIVE SpecsLoop(_, _, _)
SpecsLoop(specs, typeName, acc) ==
  IF specs = <<>> THEN acc
  ELSE SpecsLoop(Tail(specs), typeName,
                 SpecLoopBody(Head(specs), typeName, acc.state, acc.values))

\* every block starting from an empty g.values
ConstBlock_FreshMap(decl, typeName, values) ==
  SpecsLoop(decl.specs, typeName,
            [state |-> constParseState, values |-> <<>>]).values

\* parseConstBlock(decl) as a whole: g.values after it
ConstBlock(decl, typeName, values) ==
  SpecsLoop(decl.specs, typeName,
            [state |-> constParseState, values |-> values]).values

\* ast.Inspect handing the const declarations of a file to parseConstBlock,
\* in source order
RECURSIVE Inspect(_, _, _)
Inspect(decls, typeName, values) ==
  IF decls = <<>> THEN values
  ELSE Inspect(Tail(decls), typeName, ConstBlock(Head(decls), typeName, values))

\* off by one in the emptiness test at the end of Parse
ParseResult_AtMostOne(values) ==
  IF Cardinality(DOMAIN values) <= 1 THEN "no const values found" ELSE "nil"

\* the end of Parse: len(g.values) == 0 is an error
ParseResult(values) ==
  IF Cardinality(DOMAIN values) = 0 THEN "no const values found" ELSE "nil"

\* ------------------------------------------------------------------ Generate
\* strings.ToLower, on the letters in use
ToLower(s) ==
  [i \in 1..Len(s) |->
     CASE s[i] = "A" -> "a"
       [] s[i] = "B" -> "b"
       [] s[i] = "C" -> "c"
       [] s[i] = "D" -> "d"
       [] s[i] = "E" -> "e"
       [] s[i] = "F" -> "f"
       [] s[i] = "G" -> "g"
       [] s[i] = "H" -> "h"
       [] s[i] = "I" -> "i"
       [] s[i] = "J" -> "j"
       [] s[i] = "K" -> "k"
       [] s[i] = "L" -> "l"
       [] OTHER -> s[i]]

\* canonicalNames after the first loop of validateAliases: each key maps to
\* the constant written last under it, which the order of the iteration over
\* the map g.values decides when several constants share the key
RECURSIVE CanonicalNames(_, _)
CanonicalNames(gen, keys) ==
  IF keys = {} THEN {<<>>}
  ELSE {m @@ ((CHOOSE k \in keys : TRUE) :> n) :
          m \in CanonicalNames(gen, keys \ {CHOOSE k \in keys : TRUE}),
          n \in {c \in DOMAIN gen.values :
                   ToLower(TrimPrefix(c, gen.Type))
                     = (CHOOSE k \in keys : TRUE)}}

\* the body of the loop over cv.aliases; acc holds the keys of aliasToConst
\* and the number of errors collected
AliasStep(name, alias, canonicalNames, acc) ==
  IF ToLower(alias) \in DOMAIN canonicalNames
     /\ canonicalNames[ToLower(alias)] # name
  THEN [acc EXCEPT !.errs = @ + 1]
  ELSE IF ToLower(alias) \in acc.aliasToConst
    THEN [acc EXCEPT !.errs = @ + 1]
  ELSE [acc EXCEPT !.aliasToConst = @ \cup {ToLower(alias)}]

\* the loop over cv.aliases of one constant, from index i on
RECURSIVE AliasesLoop(_, _, _, _, _)
AliasesLoop(name, aliases, i, canonicalNames, acc) ==
  IF i > Len(aliases) THEN acc
  ELSE AliasesLoop(name, aliases, i + 1, canonicalNames,
                   AliasStep(name, aliases[i], canonicalNames, acc))

\* the second loop over g.values, the constants taken in the given order
RECURSIVE ConstantsLoop(_, _, _, _)
ConstantsLoop(values, order, canonicalNames, acc) ==
  IF order = <<>> THEN acc
  ELSE ConstantsLoop(values, Tail(order), canonicalNames,
                     AliasesLoop(Head(order), values[Head(order)].aliases, 1,
                                 canonicalNames, acc))

\* the orders in which an iteration over a map may meet the keys S
RECURSIVE MapOrders(_)
MapOrders(S) ==
  IF S = {} THEN {<<>>}
  ELSE UNION {{<<x>> \o p : p \in MapOrders(S \ {x})} : x \in S}

\* what validateAliases may return: nil, or the joined errors. The first loop
\* files every constant under the lower-case form of its name without the
\* type prefix; the second loop does nothing for a constant without aliases,
\* so its order is taken over the constants that have some
validateAliases(gen) ==
  {IF ConstantsLoop(gen.values, order, m,
                    [aliasToConst |-> {}, errs |-> 0]).errs > 0
   THEN "invalid aliases" ELSE "nil" :
     m \in CanonicalNames(gen, {ToLower(TrimPrefix(c, gen.Type)) :
                                  c \in DOMAIN gen.values}),
     order \in MapOrders({c \in DOMAIN gen.values :
                            gen.values[c].aliases # <<>>})}

\* valuesCounter[v]: the names recorded with value v
NamesWith(values, v) == {n \in DOMAIN values : values[n].value = v}

\* only values with more than two names are reported
SharedValues_MoreThanTwo(values) ==
  {[value |-> values[n].value, names |-> NamesWith(values, values[n].value)] :
     n \in {m \in DOMAIN values :
              Cardinality(NamesWith(values, values[m].value)) > 2}}

\* the errors collected from valuesCounter: one per value with more than one
\* name (the order of the errors and of the names in each follows map
\* iteration and is left out)
SharedValues(values) ==
  {[value |-> values[n].value, names |-> NamesWith(values, values[n].value)] :
     n \in {m \in DOMAIN values :
              Cardinality(NamesWith(values, values[m].value)) > 1}}

\* entries ordered by value instead of position
Less_ByValue(values, a, b) == values[a].value < values[b].value

\* the comparison handed to sort.Slice
Less(values, a, b) == values[a].pos < values[b].pos

\* the names none of the others comes before
Firsts(values, S) == {y \in S : \A z \in S : ~Less(values, z, y)}

\* sort.Slice over the entries collected in map order: the orders of the names
\* S in which no entry comes after one it is less than
RECURSIVE SortSlice(_, _)
SortSlice(values, S) ==
  IF S = {} THEN {<<>>}
  ELSE UNION {{<<x>> \o p : p \in SortSlice(values, S \ {x})} :
                x \in Firsts(values, S)}

\* the Value built for each entry, in the sorted order
ToValues(values, order) ==
  [i \in 1..Len(order) |->
     [PrivateName |-> order[i], Index |-> values[order[i]].value,
      Aliases |-> values[order[i]].aliases]]

\* what executing the template, formatting and writing the file may return
RenderResults ==
  {"nil", "failed to format source", "failed to write output file"}

\* the ways a call of Generate may end
GenerateResults(gen) ==
  UNION {IF a # "nil"
         THEN {[called |-> TRUE, err |-> a, shared |-> {}, Values |-> <<>>]}
         ELSE IF gen.generateGetter /\ SharedValues(gen.values) # {}
           THEN {[called |-> TRUE, err |-> "multiple names for value",
                  shared |-> SharedValues(gen.values), Values |-> <<>>]}
         ELSE {[called |-> TRUE, err |-> e, shared |-> {},
                Values |-> ToValues(gen.values, o)] :
                 o \in SortSlice(gen.values, DOMAIN gen.values),
                 e \in RenderResults} : a \in validateAliases(gen)}

\* ------------------------------------------------------------------ inputs
IntLit(text) == BasicLit("INT", text)
CharLit(text) == BasicLit("CHAR", text)

Lit0 == IntLit(<<"0">>)
Lit2 == IntLit(<<"2">>)
Lit10 == IntLit(<<"1", "0">>)
OtherIdent == Ident("x")
FloatLit == BasicLit("FLOAT", <<"1", ".", "5">>)

\* operands offered to EvaluateBinaryExpr when it is called directly
EvalOperands ==
  {iota, OtherIdent, Lit0, Lit2, Lit10,
   IntLit(<<"-", "7">>), IntLit(<<"0", "x", "1", "0">>),
   IntLit(<<"1", "_", "0">>), IntLit(<<"i", "n", "v">>),
   CharLit(<<"'", "A", "'">>), CharLit(<<"'", "A", "B", "'">>),
   FloatLit, ParenExpr(iota)}

EvalOps == {ADD, SUB, MUL, QUO, REM}

EvalExprs == {BinaryExpr(x, op, y) : x \in EvalOperands, op \in EvalOps,
                                     y \in EvalOperands}

\* the characters of the integer literals handed to ConvertLiteralToInt when
\* it is called directly, and the longest such literal
IntChars == {"0", "1", "7", "x", "_", "-"}
MaxIntLen == 4

IntTexts == UNION {[1..n -> IntChars] : n \in 1..MaxIntLen}

\* the character literals handed to it, well formed or not
CharTexts ==
  {<<"'", "A", "'">>, <<"'", "B", "'">>, <<"'", "a", "'">>,
   <<"'", "0", "'">>, <<"'", "\\", "n", "'">>, <<"'", "\\", "'", "'">>,
   <<"'", "\\", "x", "0", "0", "'">>, <<"'", "\\", "x", "4", "1", "'">>,
   <<"'", "\\", "x", "8", "0", "'">>, <<"'", "\\", "x", "f", "f", "'">>,
   <<"'", "\\", "u", "0", "0", "4", "1", "'">>,
   <<"'", "\\", "u", "0", "0", "e", "9", "'">>,
   <<"'", "\\", "u", "f", "f", "f", "d", "'">>,
   <<"'", "\\", "u", "d", "8", "0", "0", "'">>,
   <<"'", "A", "B", "'">>, <<"'", "'">>, <<"'", "A">>, <<"A">>,
   <<"'", "\\", "x", "4", "'">>, <<"'", "\\", "q", "'">>,
   <<"'", "\\", "u", "0", "0", "4", "1", "\\", "u", "0", "0", "4", "1", "'">>}

StringLit == BasicLit("STRING", <<"\"", "A", "\"">>)

ConvLits ==
  {IntLit(t) : t \in IntTexts} \cup {CharLit(t) : t \in CharTexts}
  \cup {FloatLit, StringLit}

\* expressions a retained single-name line may carry
WalkExprs ==
  {iota, OtherIdent, Lit2, FloatLit, ParenExpr(Lit2),
   UnaryExpr(SUB, Lit2),
   BinaryExpr(iota, MUL, Lit2), BinaryExpr(Lit10, ADD, iota),
   BinaryExpr(Lit10, SUB, iota), BinaryExpr(iota, QUO, Lit2),
   BinaryExpr(Lit10, QUO, iota), BinaryExpr(iota, QUO, Lit0),
   BinaryExpr(Lit2, SUB, Lit2), BinaryExpr(iota, ADD, iota),
   BinaryExpr(iota, REM, Lit2), BinaryExpr(iota, ADD, OtherIdent),
   BinaryExpr(iota, ADD, FloatLit)}

\* kinds of bound names: R has the type prefix, O has another prefix, P is the
\* placeholder
NameKinds == {"R", "O", "P"}

\* the shapes of value specs the parsed directory is drawn from: the kinds of
\* the names bound and the expressions carried
SpecShapes ==
  {[kinds |-> <<k>>, Values |-> <<>>] : k \in NameKinds}
  \cup {[kinds |-> <<"R">>, Values |-> <<e>>] : e \in WalkExprs}
  \cup {[kinds |-> <<k>>, Values |-> <<e>>] : k \in {"O", "P"},
                                            e \in {iota}}
  \cup {[kinds |-> <<"P">>, Values |-> <<Lit2>>]}
  \cup {[kinds |-> ks, Values |-> vs] :
          ks \in {<<"R", "R">>, <<"O", "R">>},
          vs \in {<<>>, <<iota>>, <<iota, iota>>}}

\* type names handed to New
TypeNames == {<<>>, <<"S", "t">>, <<"s", "t">>, <<"U+00E9", "t">>}

\* last letters of the generated constant names, one per bound name
NameChars == <<"A", "B", "C", "D", "E", "F", "G", "H", "I", "J", "K", "L">>

OtherPrefix == <<"s", "x">>

\* token.Pos values of one file lie in a range of this size
FileSpan == 2 * MaxSize + 1

\* ------------------------------------------------------------------- state
VARIABLES
  pc,        \* where the caller is: "new", "failed", "ready", "files",
             \* "file", "block", "done"
  g,         \* the Generator: Type and values (name -> value, pos)
  state,     \* the constParseState of the const block being parsed
  err,       \* what Parse returned
  nfiles,    \* the number of files parser.ParseDir found
  file,      \* the file being parsed (its index in the token.FileSet)
  visited,   \* the files already handed to parseFile
  blocks,    \* the const blocks met so far, each the value specs processed
  evalExpr,  \* direct call of EvaluateBinaryExpr: the expression
  evalIota,  \* ... the counter value
  evalRes,   \* ... and what it returned
  replay,    \* ... and the operation stored for the expression, replayed at
             \* the same counter value
  typeArg,   \* the type name New was called with
  lit,       \* direct call of ConvertLiteralToInt: the literal
  convRes,   \* ... and what it returned
  run,       \* Parse over the same directory twice: the run under way
  first,     \* ... and the values the first run left
  out,       \* what Generate did: whether it was called, the error it
             \* returned, the names it reported as sharing a value, the
             \* values it handed to the template
  gen,       \* Generate step by step: the steps that succeeded, whether it
             \* created the output directory, whether it wrote the file
  cli        \* main: the -help and -version flags, whether osExit was
             \* called and with which code

vars == <<pc, g, state, err, nfiles, file, visited, blocks, evalExpr, evalIota,
          evalRes, replay, typeArg, lit, convRes, run, first, out, gen, cli>>

walkVars == <<pc, g, state, err, nfiles, file, visited, blocks, typeArg>>
evalVars == <<evalExpr, evalIota, evalRes, replay>>
genVars == <<out, gen>>
mainVars == <<cli>>
convVars == <<lit, convRes>>
twiceVars == <<run, first>>

NoGenerator ==
  [Type |-> <<>>, values |-> <<>>, generateGetter |-> FALSE, Path |-> ""]
NoSteps == [steps |-> <<>>, dir |-> FALSE, file |-> FALSE]
NoExit == [help |-> FALSE, version |-> FALSE, exited |-> FALSE, code |-> 0]
NoConversion == [val |-> 0, err |-> FALSE, returned |-> FALSE]
NoOutput == [called |-> FALSE, err |-> "nil", shared |-> {}, Values |-> <<>>]
NoResult == [value |-> 0, usesIota |-> FALSE, err |-> FALSE, returned |-> FALSE]
NoReplay == [called |-> FALSE, op |-> NilOp, value |-> 0]

\* ---------------------------------------------------------- history helpers
\* all value specs processed so far, in the order they were processed
RECURSIVE Flatten(_)
Flatten(bs) == IF bs = <<>> THEN <<>> ELSE Head(bs).specs \o Flatten(Tail(bs))

AllSpecs == Flatten(blocks)

HasExplicit(vspec) == vspec.Values # <<>>

\* what the directory is known to hold so far
DirSize == nfiles + Len(blocks) + Len(AllSpecs)

NumExplicit == Cardinality({i \in 1..Len(AllSpecs) : HasExplicit(AllSpecs[i])})

RECURSIVE SumNames(_)
SumNames(specs) ==
  IF specs = <<>> THEN 0 ELSE Len(Head(specs).Names) + SumNames(Tail(specs))

\* names bound so far in the whole directory and in the file being parsed
NamesBound == SumNames(AllSpecs)
NamesInFile ==
  SumNames(Flatten(SelectSeq(blocks, LAMBDA b : b.file = file)))

\* the *ast.ValueSpec of the given shape at the current place of the file
MakeName(kind, k, typeName) ==
  CASE kind = "P" -> Underscore
    [] kind = "R" -> typeName \o <<NameChars[k]>>
    [] OTHER -> OtherPrefix \o <<NameChars[k]>>

MakeSpec(shape) ==
  [Names |-> [i \in 1..Len(shape.kinds) |->
                [Name |-> MakeName(shape.kinds[i], NamesBound + i, g.Type),
                 NamePos |-> (file - 1) * FileSpan + NamesInFile + i]],
   Values |-> shape.Values,
   Comment |-> [List |-> <<>>]]

\* ------------------------------------------------------------------ actions
Init ==
  /\ pc = "new"
  /\ g = NoGenerator
  /\ state = constParseState
  /\ err = "nil"
  /\ nfiles = 0
  /\ file = 0
  /\ visited = {}
  /\ blocks = <<>>
  /\ evalExpr = NoExpr
  /\ evalIota = 0
  /\ evalRes = NoResult
  /\ replay = NoReplay
  /\ out = NoOutput
  /\ gen = NoSteps
  /\ cli = NoExit
  /\ typeArg = <<>>
  /\ lit = NoExpr
  /\ convRes = NoConversion
  /\ run = 0
  /\ first = <<>>

\* the two checks of New: typeName == "" and
\* !unicode.IsLower(rune(typeName[0])), typeName[0] being the first byte of
\* the string
NewFails(typeName) ==
  typeName = <<>> \/ ~IsLower(FirstByte(CodePoint(typeName[1])))

\* New(typeName, path)
New ==
  /\ pc = "new"
  /\ \E typeName \in TypeNames :
       /\ typeArg' = typeName
       /\ IF NewFails(typeName)
          THEN pc' = "failed" /\ g' = g
          ELSE pc' = "ready"
               /\ g' = [Type |-> typeName, values |-> <<>>,
                        generateGetter |-> FALSE, Path |-> ""]
  /\ UNCHANGED <<state, err, nfiles, file, visited, blocks>>
  /\ UNCHANGED <<evalVars, genVars, mainVars, convVars, twiceVars>>

\* Parse(dir) up to parser.ParseDir, which fails or hands back the files
ParseDir ==
  /\ pc = "ready"
  /\ \/ pc' = "done" /\ err' = "failed to parse directory" /\ nfiles' = nfiles
     \/ pc' = "files" /\ err' = err /\ nfiles' \in 0..MaxFiles
  /\ UNCHANGED <<g, state, file, visited, blocks>>
  /\ UNCHANGED <<typeArg, evalVars, genVars, mainVars, convVars, twiceVars>>

\* the loop over pkg.Files reaches the next file (in map order): parseFile
parseFile ==
  /\ pc \in {"files", "file", "block"}
  /\ \E f \in (1..nfiles) \ visited :
       /\ file' = f
       /\ visited' = visited \cup {f}
  /\ pc' = "file"
  /\ UNCHANGED <<g, state, err, nfiles, blocks>>
  /\ UNCHANGED <<typeArg, evalVars, genVars, mainVars, convVars, twiceVars>>

\* ast.Inspect reaches the next const declaration of the file:
\* parseConstBlock starts with a fresh state
parseConstBlock ==
  /\ pc \in {"file", "block"}
  /\ DirSize < MaxSize
  /\ pc' = "block"
  /\ state' = NewBlockState(state)
  /\ blocks' = Append(blocks, [file |-> file, specs |-> <<>>])
  /\ UNCHANGED <<g, err, nfiles, file, visited>>
  /\ UNCHANGED <<typeArg, evalVars, genVars, mainVars, convVars, twiceVars>>

\* the variables after the value spec was processed with result r
Processed(vspec, r) ==
  /\ state' = r.state
  /\ g' = [g EXCEPT !.values = r.values]
  /\ blocks' = [blocks EXCEPT ![Len(blocks)].specs = Append(@, vspec)]

\* one iteration of parseConstBlock's loop over decl.Specs
parseValueSpec ==
  /\ pc = "block"
  /\ DirSize < MaxSize
  /\ \E shape \in SpecShapes :
       /\ HasExplicit(shape) => NumExplicit < MaxExplicit
       /\ Processed(MakeSpec(shape),
                    SpecLoopBody(MakeSpec(shape), g.Type, state, g.values))
  /\ UNCHANGED <<pc, err, nfiles, file, visited>>
  /\ UNCHANGED <<typeArg, evalVars, genVars, mainVars, convVars, twiceVars>>

\* all files were parsed: Parse checks len(g.values) and returns
ParseReturn ==
  /\ pc \in {"files", "file", "block"}
  /\ visited = 1..nfiles
  /\ pc' = "done"
  /\ err' = ParseResult(g.values)
  /\ UNCHANGED <<g, state, nfiles, file, visited, blocks>>
  /\ UNCHANGED <<typeArg, evalVars, genVars, mainVars, convVars, twiceVars>>

\* SetGenerateGetter(generate), called between Parse and Generate
SetGenerateGetter ==
  /\ pc = "done"
  /\ \E generate \in BOOLEAN : g' = [g EXCEPT !.generateGetter = generate]
  /\ UNCHANGED <<pc, state, err, nfiles, file, visited, blocks>>
  /\ UNCHANGED <<typeArg, evalVars, genVars, mainVars, convVars, twiceVars>>

\* Generate()
Generate ==
  /\ pc = "done"
  /\ pc' = "generated"
  /\ out' \in GenerateResults(g)
  /\ UNCHANGED <<g, state, err, nfiles, file, visited, blocks>>
  /\ UNCHANGED <<typeArg, evalVars, gen, mainVars, convVars, twiceVars>>

Next == New \/ ParseDir \/ parseFile \/ parseConstBlock \/ parseValueSpec
        \/ ParseReturn \/ SetGenerateGetter \/ Generate

Spec == Init /\ [][Next]_vars

\* ------------------------------------------ EvaluateBinaryExpr called directly
InitEval ==
  /\ pc = "new"
  /\ g = NoGenerator
  /\ state = constParseState
  /\ err = "nil"
  /\ nfiles = 0
  /\ file = 0
  /\ visited = {}
  /\ blocks = <<>>
  /\ evalExpr \in EvalExprs
  /\ evalIota \in 0..MaxIota
  /\ evalRes = NoResult
  /\ replay = NoReplay
  /\ out = NoOutput
  /\ gen = NoSteps
  /\ cli = NoExit
  /\ typeArg = <<>>
  /\ lit = NoExpr
  /\ convRes = NoConversion
  /\ run = 0
  /\ first = <<>>

Returned(r) ==
  [value |-> r.value, usesIota |-> r.usesIota, err |-> r.err,
   returned |-> TRUE]

CallEvaluateBinaryExpr ==
  /\ ~evalRes.returned
  /\ evalExpr # NoExpr
  /\ evalRes' = Returned(EvaluateBinaryExpr(evalExpr, evalIota))
  /\ UNCHANGED <<evalExpr, evalIota, replay>>
  /\ UNCHANGED <<walkVars, genVars, mainVars, convVars, twiceVars>>

\* the operation op replayed at counter value iotaVal
Replayed(op, iotaVal) ==
  [called |-> TRUE, op |-> op, value |-> applyIotaOperation(op, iotaVal)]

\* the evaluation succeeded with the counter in use: the operation
\* processBinaryExpr builds for the expression, handed to applyIotaOperation
\* at the counter value of the evaluation
CallApplyIotaOperation ==
  /\ evalRes.returned
  /\ ~evalRes.err
  /\ evalRes.usesIota
  /\ ~replay.called
  /\ replay' = Replayed(processBinaryExpr(
                          evalExpr,
                          [constParseState EXCEPT !.iotaVal = evalIota]).op,
                        evalIota)
  /\ UNCHANGED <<evalExpr, evalIota, evalRes>>
  /\ UNCHANGED <<walkVars, genVars, mainVars, convVars, twiceVars>>

NextEval == CallEvaluateBinaryExpr \/ CallApplyIotaOperation

SpecEval == InitEval /\ [][NextEval]_vars

\* ------------------------------------- Parse twice over the same directory
\* the directories parsed twice: two files of one const block each, one or
\* two value specs in a block, each binding stA or stB
TwiceType == <<"s", "t">>
TwiceNames == {TwiceType \o <<"A">>, TwiceType \o <<"B">>}
TwiceValues == {<<>>, <<iota>>, <<Lit2>>}

DirSpec(n, vs, f, i) ==
  [Names |-> <<[Name |-> n, NamePos |-> (f - 1) * FileSpan + i]>>,
   Values |-> vs,
   Comment |-> [List |-> <<>>]]

FileSpecs(f) ==
  {<<DirSpec(n, vs, f, 1)>> : n \in TwiceNames, vs \in TwiceValues}
  \cup {<<DirSpec(n[1], vs[1], f, 1), DirSpec(n[2], vs[2], f, 2)>> :
          n \in TwiceNames \X TwiceNames, vs \in TwiceValues \X TwiceValues}

Dirs ==
  {<<[file |-> 1, specs |-> a], [file |-> 2, specs |-> b]>> :
     a \in FileSpecs(1), b \in FileSpecs(2)}

\* the const declarations of file f
FileDecls(dir, f) == SelectSeq(dir, LAMBDA b : b.file = f)

\* New and parser.ParseDir have succeeded
InitTwice ==
  /\ pc = "files"
  /\ g = [Type |-> TwiceType, values |-> <<>>, generateGetter |-> FALSE,
          Path |-> ""]
  /\ state = constParseState
  /\ err = "nil"
  /\ nfiles = 2
  /\ file = 0
  /\ visited = {}
  /\ blocks \in Dirs
  /\ evalExpr = NoExpr
  /\ evalIota = 0
  /\ evalRes = NoResult
  /\ replay = NoReplay
  /\ out = NoOutput
  /\ gen = NoSteps
  /\ cli = NoExit
  /\ typeArg = TwiceType
  /\ lit = NoExpr
  /\ convRes = NoConversion
  /\ run = 1
  /\ first = <<>>

\* the loop over pkg.Files reaches the next file (in map order):
\* parseFile(file) as a whole
parseWholeFile ==
  /\ pc = "files"
  /\ \E f \in (1..nfiles) \ visited :
       /\ file' = f
       /\ visited' = visited \cup {f}
       /\ g' = [g EXCEPT
                  !.values = Inspect(FileDecls(blocks, f), g.Type, g.values)]
  /\ UNCHANGED <<pc, state, err, nfiles, blocks>>
  /\ UNCHANGED <<typeArg, evalVars, genVars, mainVars, convVars, twiceVars>>

\* Parse(dir) called again on the unchanged directory, by the same generator
\* or by a fresh one of the same type
ParseAgain ==
  /\ pc = "done"
  /\ run = 1
  /\ run' = 2
  /\ first' = g.values
  /\ \E fresh \in BOOLEAN :
       g' = IF fresh THEN [g EXCEPT !.values = <<>>] ELSE g
  /\ pc' = "files"
  /\ visited' = {}
  /\ file' = 0
  /\ UNCHANGED <<state, err, nfiles, blocks>>
  /\ UNCHANGED <<typeArg, evalVars, genVars, mainVars, convVars>>

NextTwice == parseWholeFile \/ ParseReturn \/ ParseAgain

SpecTwice == InitTwice /\ [][NextTwice]_vars

\* ------------------------------------------------ main: the command line run
\* the inline comments of the directory the command runs in: none, one that
\* is not an alias comment, and alias comments with the lists a, A, b, x,
\* "x,x", "x, b" and the empty list
Comments ==
  {[List |-> <<>>], [List |-> <<<<"/", "/", " ", "x">>>>]}
  \cup {[List |-> <<<<"/", "/", " ">> \o AliasMarker \o l>>] :
          l \in {<<"a">>, <<"A">>, <<"b">>, <<"x">>, <<"x", ",", "x">>,
                 <<"x", ",", " ", "b">>, <<>>}}

\* the const blocks of the directory: two or three of the constants stA, sta,
\* stB, one to a line, the first = iota, or stA and stB bound by one line
AliasBlocks ==
  LET Line(names, vs, c, i) ==
        [Names |-> [k \in 1..Len(names) |->
                      [Name |-> TwiceType \o <<names[k]>>,
                       NamePos |-> i + k - 1]],
         Values |-> vs,
         Comment |-> c]
  IN {<<Line(<<n[1]>>, <<iota>>, c[1], 1), Line(<<n[2]>>, <<>>, c[2], 2)>> :
        n \in {<<"A", "a">>, <<"A", "B">>, <<"a", "B">>},
        c \in Comments \X Comments}
     \cup {<<Line(<<"A">>, <<iota>>, c[1], 1), Line(<<"a">>, <<>>, c[2], 2),
             Line(<<"B">>, <<>>, c[3], 3)>> :
             c \in Comments \X Comments \X Comments}
     \cup {<<Line(<<"A", "B">>, <<iota>>, c, 1)>> : c \in Comments}

\* the process before main runs; blocks holds the const blocks of the first
\* file of the working directory, if the directory has a file
InitMain ==
  /\ pc = "flags"
  /\ g = NoGenerator
  /\ state = constParseState
  /\ err = "nil"
  /\ nfiles = 0
  /\ file = 0
  /\ visited = {}
  /\ blocks \in {<<[file |-> 1, specs |-> b]>> : b \in AliasBlocks}
  /\ evalExpr = NoExpr
  /\ evalIota = 0
  /\ evalRes = NoResult
  /\ replay = NoReplay
  /\ out = NoOutput
  /\ gen = NoSteps
  /\ cli = NoExit
  /\ typeArg = <<>>
  /\ lit = NoExpr
  /\ convRes = NoConversion
  /\ run = 0
  /\ first = <<>>

\* flag.Parse and the tests of *helpFlag and *versionFlag
mainFlags ==
  /\ pc = "flags"
  /\ \E help \in BOOLEAN, version \in BOOLEAN :
       /\ cli' = [help |-> help, version |-> version,
                  exited |-> help \/ version, code |-> 0]
       /\ pc' = IF help \/ version THEN "exited" ELSE "new"
  /\ UNCHANGED <<g, state, err, nfiles, file, visited, blocks>>
  /\ UNCHANGED <<typeArg, evalVars, genVars, convVars, twiceVars>>

\* generator.New(*typeFlag, *pathFlag), osExit(1) when it fails, and the
\* setters
mainNew ==
  /\ pc = "new"
  /\ \E typeFlag \in {<<>>, TwiceType}, pathFlag \in {"", "out"},
        getterFlag \in BOOLEAN :
       /\ typeArg' = typeFlag
       /\ IF NewFails(typeFlag)
          THEN /\ pc' = "exited"
               /\ g' = g
               /\ cli' = [cli EXCEPT !.exited = TRUE, !.code = 1]
          ELSE /\ pc' = "ready"
               /\ g' = [Type |-> typeFlag, values |-> <<>>,
                        generateGetter |-> getterFlag, Path |-> pathFlag]
               /\ cli' = cli
  /\ UNCHANGED <<state, err, nfiles, file, visited, blocks>>
  /\ UNCHANGED <<evalVars, genVars, convVars, twiceVars>>

\* gen.Generate() called whatever gen.Parse(".") returned
mainParsed_IgnoresError ==
  /\ pc = "done"
  /\ pc' = "validate"
  /\ UNCHANGED <<g, state, err, nfiles, file, visited, blocks>>
  /\ UNCHANGED <<typeArg, evalVars, genVars, mainVars, convVars, twiceVars>>

\* gen.Parse(".") has returned: osExit(1) on an error, else gen.Generate()
mainParsed ==
  /\ pc = "done"
  /\ IF err # "nil"
     THEN pc' = "exited" /\ cli' = [cli EXCEPT !.exited = TRUE, !.code = 1]
     ELSE pc' = "validate" /\ cli' = cli
  /\ UNCHANGED <<g, state, err, nfiles, file, visited, blocks>>
  /\ UNCHANGED <<typeArg, evalVars, genVars, convVars, twiceVars>>

\* Generate: g.validateAliases()
GenValidateAliases ==
  /\ pc = "validate"
  /\ \E e \in validateAliases(g) :
       /\ out' = [called |-> TRUE, err |-> e, shared |-> {}, Values |-> <<>>]
       /\ IF e # "nil"
          THEN pc' = "generated" /\ gen' = gen
          ELSE /\ pc' = "unique"
               /\ gen' = [gen EXCEPT !.steps = Append(@, "validateAliases")]
  /\ UNCHANGED <<g, state, err, nfiles, file, visited, blocks>>
  /\ UNCHANGED <<typeArg, evalVars, mainVars, convVars, twiceVars>>

\* Generate: the check that no two names share a value, made when
\* g.generateGetter is set
GenCheckUnique ==
  /\ pc = "unique"
  /\ IF g.generateGetter /\ SharedValues(g.values) # {}
     THEN /\ out' = [out EXCEPT !.err = "multiple names for value",
                                !.shared = SharedValues(g.values)]
          /\ pc' = "generated"
          /\ gen' = gen
     ELSE /\ out' = out
          /\ pc' = "template"
          /\ gen' = [gen EXCEPT !.steps = Append(@, "unique values")]
  /\ UNCHANGED <<g, state, err, nfiles, file, visited, blocks>>
  /\ UNCHANGED <<typeArg, evalVars, mainVars, convVars, twiceVars>>

\* Generate: the entries sorted by position, the values built and
\* enumTemplate.Execute
GenExecuteTemplate ==
  /\ pc = "template"
  /\ \E o \in SortSlice(g.values, DOMAIN g.values) :
       \/ /\ out' = [out EXCEPT !.Values = ToValues(g.values, o),
                                !.err = "failed to execute template"]
          /\ pc' = "generated"
          /\ gen' = gen
       \/ /\ out' = [out EXCEPT !.Values = ToValues(g.values, o)]
          /\ pc' = "format"
          /\ gen' = [gen EXCEPT !.steps = Append(@, "template")]
  /\ UNCHANGED <<g, state, err, nfiles, file, visited, blocks>>
  /\ UNCHANGED <<typeArg, evalVars, mainVars, convVars, twiceVars>>

\* the unformatted buffer written out when format.Source fails
GenFormatSource_WritesBuffer ==
  /\ pc = "format"
  /\ \/ /\ out' = [out EXCEPT !.err = "failed to format source"]
        /\ pc' = "generated"
        /\ gen' = [gen EXCEPT !.file = TRUE]
     \/ /\ out' = out
        /\ pc' = IF g.Path # "" THEN "mkdir" ELSE "write"
        /\ gen' = [gen EXCEPT !.steps = Append(@, "format")]
  /\ UNCHANGED <<g, state, err, nfiles, file, visited, blocks>>
  /\ UNCHANGED <<typeArg, evalVars, mainVars, convVars, twiceVars>>

\* Generate: format.Source
GenFormatSource ==
  /\ pc = "format"
  /\ \/ /\ out' = [out EXCEPT !.err = "failed to format source"]
        /\ pc' = "generated"
        /\ gen' = gen
     \/ /\ out' = out
        /\ pc' = IF g.Path # "" THEN "mkdir" ELSE "write"
        /\ gen' = [gen EXCEPT !.steps = Append(@, "format")]
  /\ UNCHANGED <<g, state, err, nfiles, file, visited, blocks>>
  /\ UNCHANGED <<typeArg, evalVars, mainVars, convVars, twiceVars>>

\* Generate: os.MkdirAll(g.Path, dirPerm), when g.Path is set
GenMkdirAll ==
  /\ pc = "mkdir"
  /\ \/ /\ out' = [out EXCEPT !.err = "failed to create output directory"]
        /\ pc' = "generated"
        /\ gen' = gen
     \/ /\ out' = out
        /\ pc' = "write"
        /\ gen' = [gen EXCEPT !.steps = Append(@, "MkdirAll"), !.dir = TRUE]
  /\ UNCHANGED <<g, state, err, nfiles, file, visited, blocks>>
  /\ UNCHANGED <<typeArg, evalVars, mainVars, convVars, twiceVars>>

\* Generate: os.WriteFile(outputName, src, filePerm) and the return
GenWriteFile ==
  /\ pc = "write"
  /\ \/ /\ out' = [out EXCEPT !.err = "failed to write output file"]
        /\ gen' = gen
     \/ /\ out' = out
        /\ gen' = [gen EXCEPT !.steps = Append(@, "WriteFile"), !.file = TRUE]
  /\ pc' = "generated"
  /\ UNCHANGED <<g, state, err, nfiles, file, visited, blocks>>
  /\ UNCHANGED <<typeArg, evalVars, mainVars, convVars, twiceVars>>

\* gen.Generate() has returned: osExit(1) on an error, else main returns
mainGenerated ==
  /\ pc = "generated"
  /\ IF out.err # "nil"
     THEN pc' = "exited" /\ cli' = [cli EXCEPT !.exited = TRUE, !.code = 1]
     ELSE pc' = "returned" /\ cli' = cli
  /\ UNCHANGED <<g, state, err, nfiles, file, visited, blocks>>
  /\ UNCHANGED <<typeArg, evalVars, genVars, convVars, twiceVars>>

NextMain ==
  \/ mainFlags \/ mainNew \/ ParseDir \/ parseWholeFile \/ ParseReturn
  \/ mainParsed \/ GenValidateAliases \/ GenCheckUnique \/ GenExecuteTemplate
  \/ GenFormatSource \/ GenMkdirAll \/ GenWriteFile \/ mainGenerated

SpecMain == InitMain /\ [][NextMain]_vars

\* ----------------------------------------- ConvertLiteralToInt called directly
InitConv ==
  /\ pc = "new"
  /\ g = NoGenerator
  /\ state = constParseState
  /\ err = "nil"
  /\ nfiles = 0
  /\ file = 0
  /\ visited = {}
  /\ blocks = <<>>
  /\ evalExpr = NoExpr
  /\ evalIota = 0
  /\ evalRes = NoResult
  /\ replay = NoReplay
  /\ out = NoOutput
  /\ gen = NoSteps
  /\ cli = NoExit
  /\ typeArg = <<>>
  /\ lit \in ConvLits
  /\ convRes = NoConversion
  /\ run = 0
  /\ first = <<>>

Converted(c) == [val |-> c.val, err |-> c.err, returned |-> TRUE]

CallConvertLiteralToInt ==
  /\ ~convRes.returned
  /\ lit # NoExpr
  /\ convRes' = Converted(ConvertLiteralToInt(lit))
  /\ UNCHANGED <<lit, walkVars, evalVars, genVars, mainVars, twiceVars>>

NextConv == CallConvertLiteralToInt

SpecConv == InitConv /\ [][NextConv]_vars

\* ===================================================================
\* Properties
\* ===================================================================
\* vocabulary of the properties, read off the history of value specs
SingleName(v) == Len(v.Names) = 1
NameOf(v) == v.Names[1].Name
IsRetainedName(n) == n # Underscore /\ HasPrefix(n, g.Type)
SingleRetained(v) == SingleName(v) /\ IsRetainedName(NameOf(v))
SinglePlaceholder(v) == SingleName(v) /\ NameOf(v) = Underscore
Recorded(n) == n \in DOMAIN g.values
ValueOf(n) == g.values[n].value
BlockIds == 1..Len(blocks)
SpecsOf(b) == blocks[b].specs

\* every name bound by some value spec of the directory so far
BoundNames ==
  UNION {{AllSpecs[i].Names[k].Name : k \in 1..Len(AllSpecs[i].Names)} :
           i \in 1..Len(AllSpecs)}

\* a literal ConvertLiteralToInt accepts, and its value
Convertible(e) == e.node = "BasicLit" /\ ~ConvertLiteralToInt(e).err
LitVal(e) == ConvertLiteralToInt(e).val

\* integer quotient truncated toward zero, by its defining property
TruncQuo(l, r) ==
  CHOOSE q \in -Abs(l)..Abs(l) :
    /\ Abs(q) * Abs(r) <= Abs(l)
    /\ Abs(l) < (Abs(q) + 1) * Abs(r)
    /\ q > 0 => ((l > 0) = (r > 0))
    /\ q < 0 => ((l > 0) # (r > 0))

Arith(op, l, r) ==
  CASE op = ADD -> l + r
    [] op = SUB -> l - r
    [] op = MUL -> l * r
    [] op = QUO -> TruncQuo(l, r)

ArithOps == {ADD, SUB, MUL, QUO}

\* an operand EvaluateBinaryExpr supports, and its value at counter t
OperandOk(e) == IsIotaIdent(e) \/ Convertible(e)
OperandAt(e, t) == IF IsIotaIdent(e) THEN t ELSE LitVal(e)

\* the value of a binary expression over the counter and literals at tick t
ExprAt(e, t) == Arith(e.Op, OperandAt(e.X, t), OperandAt(e.Y, t))

\* ------------------------------------------------------------------- C1
\* the block binds one retained name per line, the first line carries
\* "= iota" and no other line carries an expression
BareCounterBlock(specs) ==
  /\ specs # <<>>
  /\ \A i \in 1..Len(specs) :
       /\ SingleRetained(specs[i])
       /\ specs[i].Values = IF i = 1 THEN <<iota>> ELSE <<>>

\* C1: in a bare-counter block (first entry "= iota", no other expression,
\* one retained name per line, no placeholder) every entry is recorded with
\* its zero-based line index in the block as value.
C1_BareCounterIndex ==
  \A b \in BlockIds :
    BareCounterBlock(SpecsOf(b)) =>
      \A i \in 1..Len(SpecsOf(b)) :
        /\ Recorded(NameOf(SpecsOf(b)[i]))
        /\ ValueOf(NameOf(SpecsOf(b)[i])) = i - 1

C1_Witness ==
  /\ pc = "done"
  /\ err = "nil"
  /\ \E b \in BlockIds :
       /\ BareCounterBlock(SpecsOf(b))
       /\ Len(SpecsOf(b)) = 4
       /\ ValueOf(NameOf(SpecsOf(b)[4])) = 3

\* ------------------------------------------------------------------- C2
\* a bare-counter block that mixes placeholder lines with named entries: the
\* first line carries "= iota" whether it is a placeholder or not
PlaceholderBlock(specs) ==
  /\ specs # <<>>
  /\ \A i \in 1..Len(specs) :
       /\ SingleRetained(specs[i]) \/ SinglePlaceholder(specs[i])
       /\ specs[i].Values = IF i = 1 THEN <<iota>> ELSE <<>>
  /\ \E i \in 1..Len(specs) : SinglePlaceholder(specs[i])
  /\ \E i \in 1..Len(specs) : SingleRetained(specs[i])

\* C2: in a bare-counter block mixing placeholders and named entries,
\* wherever the placeholders stand (the first line included), every named
\* entry resolves to its zero-based line index and nothing is recorded for a
\* placeholder.
C2_PlaceholdersAdvance ==
  /\ ~Recorded(Underscore)
  /\ \A b \in BlockIds :
       PlaceholderBlock(SpecsOf(b)) =>
         \A i \in 1..Len(SpecsOf(b)) :
           SingleRetained(SpecsOf(b)[i]) =>
             /\ Recorded(NameOf(SpecsOf(b)[i]))
             /\ ValueOf(NameOf(SpecsOf(b)[i])) = i - 1

\* ------------------------------------------------------------------- C3
\* "iota op k" or "k op iota" with op in {+, -, *}, or "iota / k" with k # 0
CounterOpLit(e) ==
  /\ e.node = "BinaryExpr"
  /\ \/ /\ IsIotaIdent(e.X) /\ Convertible(e.Y)
        /\ e.Op \in {ADD, SUB, MUL} \/ (e.Op = QUO /\ LitVal(e.Y) # 0)
     \/ /\ IsIotaIdent(e.Y) /\ Convertible(e.X)
        /\ e.Op \in {ADD, SUB, MUL}

\* line i of the block is a retained entry carrying such an expression, line
\* j >= i is a retained entry, and no line after i up to j carries an
\* expression
ContinuesFrom(specs, i, j) ==
  /\ i <= j
  /\ SingleRetained(specs[i])
  /\ Len(specs[i].Values) = 1
  /\ CounterOpLit(specs[i].Values[1])
  /\ SingleRetained(specs[j])
  /\ \A k \in (i + 1)..j : specs[k].Values = <<>>

\* C3: after an entry "iota op k" / "k op iota" (op add, subtract, multiply;
\* or "iota / k", k # 0) at tick t0, every continuation entry at tick t > t0
\* resolves to that expression evaluated with the counter equal to t (and
\* the entry itself to the expression at t0).
C3_OperationReplay ==
  \A b \in BlockIds :
    \A i \in 1..Len(SpecsOf(b)) :
      \A j \in i..Len(SpecsOf(b)) :
        ContinuesFrom(SpecsOf(b), i, j) =>
          /\ Recorded(NameOf(SpecsOf(b)[j]))
          /\ ValueOf(NameOf(SpecsOf(b)[j]))
               = ExprAt(SpecsOf(b)[i].Values[1], j - 1)

C3_Witness ==
  /\ pc = "done"
  /\ \E b \in BlockIds :
       /\ Len(SpecsOf(b)) = 3
       /\ ContinuesFrom(SpecsOf(b), 1, 3)
       /\ SingleRetained(SpecsOf(b)[2])
       /\ SpecsOf(b)[1].Values[1] = BinaryExpr(Lit10, SUB, iota)
       /\ ValueOf(NameOf(SpecsOf(b)[1])) = 10
       /\ ValueOf(NameOf(SpecsOf(b)[2])) = 9
       /\ ValueOf(NameOf(SpecsOf(b)[3])) = 8

\* ------------------------------------------------------------------- C4
\* the first line is the retained entry "10 / iota" and every other line is
\* a retained continuation entry
TenOverCounterBlock(specs) ==
  /\ specs # <<>>
  /\ \A i \in 1..Len(specs) :
       /\ SingleRetained(specs[i])
       /\ specs[i].Values
            = IF i = 1 THEN <<BinaryExpr(Lit10, QUO, iota)>> ELSE <<>>

TenOverCounterValues == <<0, 10, 5, 3>>

\* C4: a block "10 / iota" followed by three continuation entries resolves
\* to 0, 10, 5, 3 in order.
C4_TenOverCounter ==
  \A b \in BlockIds :
    TenOverCounterBlock(SpecsOf(b)) =>
      \A i \in 1..Len(SpecsOf(b)) :
        i <= 4 =>
          ValueOf(NameOf(SpecsOf(b)[i])) = TenOverCounterValues[i]

\* ------------------------------------------------------------------- C5
\* the expression errors of the evaluator that do not depend on the tick:
\* unsupported operand, unsupported operator, a literal that does not
\* convert, division by a literal zero
ExprError(e) ==
  CASE e.node = "BinaryExpr" ->
         \/ ~OperandOk(e.X)
         \/ ~OperandOk(e.Y)
         \/ e.Op \notin ArithOps
         \/ e.Op = QUO /\ Convertible(e.Y) /\ LitVal(e.Y) = 0
    [] e.node = "BasicLit" -> ~Convertible(e)
    [] e.node = "UnaryExpr" ->
         e.Op = SUB /\ e.X.node = "BasicLit" /\ ~Convertible(e.X)
    [] OTHER -> FALSE

\* name k of the value spec is a retained entry with its own expression
ExplicitEntry(v, k) ==
  /\ k <= Len(v.Names)
  /\ IsRetainedName(v.Names[k].Name)
  /\ k <= Len(v.Values)

\* the retained entries resolved so far whose expression is in error
ErrorEntries ==
  {n \in BoundNames :
     \E i \in 1..Len(AllSpecs), k \in 1..2 :
       /\ ExplicitEntry(AllSpecs[i], k)
       /\ AllSpecs[i].Names[k].Name = n
       /\ ExprError(AllSpecs[i].Values[k])}

LitOverCounter(e) ==
  /\ e.node = "BinaryExpr"
  /\ e.Op = QUO
  /\ Convertible(e.X)
  /\ IsIotaIdent(e.Y)

\* the retained entries on the first line of a block (tick 0) that carry a
\* "literal / iota" expression
ZeroTickDivisions ==
  {n \in BoundNames :
     \E b \in BlockIds, k \in 1..2 :
       /\ SpecsOf(b) # <<>>
       /\ ExplicitEntry(SpecsOf(b)[1], k)
       /\ SpecsOf(b)[1].Names[k].Name = n
       /\ LitOverCounter(SpecsOf(b)[1].Values[k])}

\* C6: "literal / iota" evaluated at tick 0 resolves to 0, the entry is
\* recorded, and Parse does not fail.
C6_DivisionByCounterAtZero ==
  /\ \A n \in ZeroTickDivisions : Recorded(n) /\ ValueOf(n) = 0
  /\ (pc = "done" /\ ZeroTickDivisions # {}) => err = "nil"

C6_Witness ==
  /\ pc = "done"
  /\ err = "nil"
  /\ \E n \in ZeroTickDivisions : Recorded(n) /\ ValueOf(n) = 0

\* ------------------------------------------------------------------- C7
\* the three reasons for EvaluateBinaryExpr to fail at counter value t
EvalMustFail(e, t) ==
  \/ ~OperandOk(e.X)
  \/ ~OperandOk(e.Y)
  \/ e.Op \notin ArithOps
  \/ e.Op = QUO /\ OperandAt(e.Y, t) = 0

\* C7: EvaluateBinaryExpr returns an error, with value 0 and usesIota false,
\* exactly when an operand is neither iota nor a convertible literal, or the
\* operator is none of + - * /, or it divides by a right-hand value of 0;
\* "iota / 0" fails at every counter value.
C7_EvalErrors ==
  evalRes.returned =>
    /\ evalRes.err <=> EvalMustFail(evalExpr, evalIota)
    /\ evalRes.err => (evalRes.value = 0 /\ ~evalRes.usesIota)
    /\ evalExpr = BinaryExpr(iota, QUO, Lit0) => evalRes.err

C7_Witness ==
  /\ evalRes.returned
  /\ evalExpr = BinaryExpr(iota, QUO, Lit0)
  /\ evalIota = MaxIota
  /\ evalRes.err

\* ------------------------------------------------------------------- C8
\* C8: on two supported operands and an arithmetic operator with a non-zero
\* divisor, EvaluateBinaryExpr returns left op right (division truncating
\* toward zero) and usesIota is true iff one side is iota.
C8_EvalValue ==
  (evalRes.returned /\ ~EvalMustFail(evalExpr, evalIota)) =>
    /\ ~evalRes.err
    /\ evalRes.value = ExprAt(evalExpr, evalIota)
    /\ evalRes.usesIota <=> (IsIotaIdent(evalExpr.X) \/ IsIotaIdent(evalExpr.Y))

C8_Witness ==
  /\ evalRes.returned
  /\ evalExpr = BinaryExpr(IntLit(<<"-", "7">>), QUO, Lit2)
  /\ evalRes.value = -3
  /\ ~evalRes.usesIota
  /\ ~evalRes.err

\* ------------------------------------------------------------------- C9
\* the bound names that pass the filter of parseConstBlock
RetainedBound == {n \in BoundNames : IsRetainedName(n)}

\* the block binds no retained name
ContributesNothing(specs) ==
  \A i \in 1..Len(specs) :
    \A k \in 1..Len(specs[i].Names) : ~IsRetainedName(specs[i].Names[k].Name)

\* C9: Parse fails with "no const values found" exactly when the scan of
\* all const blocks retained no entry; a block that is empty or binds only
\* placeholders does not make Parse fail when another block supplies entries.
C9_NoValuesError ==
  pc = "done" =>
    /\ err = "no const values found"
         <=> (err # "failed to parse directory" /\ RetainedBound = {})
    /\ (RetainedBound # {} /\ err # "failed to parse directory") => err = "nil"

C9_Witness ==
  /\ pc = "done"
  /\ err = "nil"
  /\ \E b1, b2, b3 \in BlockIds :
       /\ SpecsOf(b1) = <<>>
       /\ SpecsOf(b2) # <<>>
       /\ \A i \in 1..Len(SpecsOf(b2)) : SinglePlaceholder(SpecsOf(b2)[i])
       /\ ~ContributesNothing(SpecsOf(b3))

\* ------------------------------------------------------------------ C10
\* C10: the retained mapping holds exactly the bound names that are not the
\* placeholder and start with the type name, each name of a line being
\* tested on its own.
C10_PrefixFilter == DOMAIN g.values = RetainedBound

C10_Witness ==
  /\ pc = "done"
  /\ \E i \in 1..Len(AllSpecs) :
       /\ Len(AllSpecs[i].Names) = 2
       /\ ~IsRetainedName(AllSpecs[i].Names[1].Name)
       /\ IsRetainedName(AllSpecs[i].Names[2].Name)
       /\ Recorded(AllSpecs[i].Names[2].Name)
       /\ ~Recorded(AllSpecs[i].Names[1].Name)

\* ------------------------------------------------------------------ C11
\* where a name was declared: the position of the identifier in the value
\* spec that binds it
DeclPositions(n) ==
  {AllSpecs[b[1]].Names[b[2]].NamePos :
     b \in {c \in (1..Len(AllSpecs)) \X (1..2) :
              /\ c[2] <= Len(AllSpecs[c[1]].Names)
              /\ AllSpecs[c[1]].Names[c[2]].Name = n}}

DeclPos(n) == CHOOSE p \in DeclPositions(n) : TRUE

OutNames == {out.Values[i].PrivateName : i \in 1..Len(out.Values)}

Rendered == out.called /\ out.err # "multiple names for value"

\* the rank of a generated name in alphabetical order
NameRank(n) == CHOOSE k \in 1..Len(NameChars) : NameChars[k] = n[Len(n)]

\* C11: the values Generate hands to the template are the retained entries,
\* each exactly once with its recorded value, in strictly increasing position
\* of declaration in the source
C11_DeclarationOrder ==
  Rendered =>
    /\ Len(out.Values) = Cardinality(DOMAIN g.values)
    /\ OutNames = DOMAIN g.values
    /\ \A i \in 1..Len(out.Values) :
         out.Values[i].Index = ValueOf(out.Values[i].PrivateName)
    /\ \A i \in 1..Len(out.Values) : \A j \in 1..Len(out.Values) :
         i < j => DeclPos(out.Values[i].PrivateName)
                    < DeclPos(out.Values[j].PrivateName)

\* three or more values rendered in an order that is neither alphabetical nor
\* by value
C11_Witness ==
  /\ Rendered
  /\ Len(out.Values) >= 3
  /\ \E i \in 1..Len(out.Values) : \E j \in 1..Len(out.Values) :
       i < j /\ out.Values[i].Index > out.Values[j].Index
  /\ \E i \in 1..Len(out.Values) : \E j \in 1..Len(out.Values) :
       i < j /\ NameRank(out.Values[i].PrivateName)
                  > NameRank(out.Values[j].PrivateName)

\* ------------------------------------------------------------------ C16
SameValue(v) == {n \in DOMAIN g.values : ValueOf(n) = v}

\* the values two or more retained names resolve to, each with its names
DuplicateGroups ==
  {[value |-> ValueOf(n), names |-> SameValue(ValueOf(n))] :
     n \in {m \in DOMAIN g.values :
              \E k \in DOMAIN g.values : k # m /\ ValueOf(k) = ValueOf(m)}}

\* C16: with the getter option on, Generate fails on shared values exactly
\* when two retained names have the same value, and reports every shared
\* value with its names; with the option off it never fails on them
C16_GetterDuplicates ==
  out.called =>
    /\ g.generateGetter =>
         /\ (out.err = "multiple names for value") <=> (DuplicateGroups # {})
         /\ DuplicateGroups # {} => out.shared = DuplicateGroups
    /\ ~g.generateGetter =>
         /\ out.err # "multiple names for value"
         /\ OutNames = DOMAIN g.values

C16_Witness ==
  /\ out.called
  /\ g.generateGetter
  /\ out.err = "multiple names for value"
  /\ \E gr \in out.shared : Cardinality(gr.names) = 2

\* ------------------------------------------------------------------ C13
\* a line binding two retained names to the bare counter, by one expression
\* for both or one each
CounterPair(v) ==
  /\ Len(v.Names) = 2
  /\ \A k \in 1..2 : IsRetainedName(v.Names[k].Name)
  /\ v.Values \in {<<iota>>, <<iota, iota>>}

\* the block being parsed, or the last one parsed
LastBlock == SpecsOf(Len(blocks))

Supported(e) ==
  CASE e.node = "Ident" -> IsIotaIdent(e)
    [] e.node = "BasicLit" -> Convertible(e)
    [] e.node = "UnaryExpr" -> e.Op = SUB /\ Convertible(e.X)
    [] e.node = "BinaryExpr" ->
         OperandOk(e.X) /\ OperandOk(e.Y) /\ e.Op \in ArithOps
    [] OTHER -> FALSE

\* the expression has a value at tick t (no division by zero)
DefinedAt(e, t) ==
  e.node = "BinaryExpr" /\ e.Op = QUO => OperandAt(e.Y, t) # 0

\* the value the language gives the expression at tick t
ValueAt(e, t) ==
  CASE e.node = "Ident" -> t
    [] e.node = "BasicLit" -> LitVal(e)
    [] e.node = "UnaryExpr" -> -LitVal(e.X)
    [] e.node = "BinaryExpr" -> ExprAt(e, t)

\* line i carries the nearest explicit expression before line j, a retained
\* entry without one
RepeatsFrom(specs, i, j) ==
  /\ i < j
  /\ SingleName(specs[i])
  /\ Len(specs[i].Values) = 1
  /\ SingleRetained(specs[j])
  /\ \A k \in (i + 1)..j : specs[k].Values = <<>>

\* C18: an entry without expression resolves to the nearest preceding
\* explicit expression of its block, when that is in the supported grammar,
\* evaluated with the counter at the entry's own tick
C18_AutoRepeat ==
  \A b \in BlockIds :
    \A j \in 1..Len(SpecsOf(b)) : \A i \in 1..Len(SpecsOf(b)) :
      ( /\ RepeatsFrom(SpecsOf(b), i, j)
        /\ Supported(SpecsOf(b)[i].Values[1])
        /\ DefinedAt(SpecsOf(b)[i].Values[1], j - 1) ) =>
        /\ Recorded(NameOf(SpecsOf(b)[j]))
        /\ ValueOf(NameOf(SpecsOf(b)[j]))
             = ValueAt(SpecsOf(b)[i].Values[1], j - 1)

\* ------------------------------------------------------------------ C19
\* an explicit plain value: a literal, a negated literal, arithmetic over
\* literals
PlainExpr(e) ==
  CASE e.node = "BasicLit" -> Convertible(e)
    [] e.node = "UnaryExpr" -> e.Op = SUB /\ Convertible(e.X)
    [] e.node = "BinaryExpr" ->
         /\ Convertible(e.X) /\ Convertible(e.Y) /\ e.Op \in ArithOps
         /\ e.Op = QUO => LitVal(e.Y) # 0
    [] OTHER -> FALSE

\* line i of the block is a retained entry with an explicit plain value
PlainEntry(specs, i) ==
  /\ SingleRetained(specs[i])
  /\ Len(specs[i].Values) = 1
  /\ PlainExpr(specs[i].Values[1])

PlainValue(specs, i) == ValueAt(specs[i].Values[1], 0)

NoExplicitBetween(specs, i, j) == \A k \in (i + 1)..j : specs[k].Values = <<>>

\* C19: after a retained entry with an explicit plain value v (0 included)
\* the last kind is plain with value v and no stored operation, every
\* continuation entry resolves to v until the next explicit expression, and
\* an explicit bare counter after it resolves to the tick of its line
C19_PlainRepeats ==
  /\ \A b \in BlockIds :
       \A i \in 1..Len(SpecsOf(b)) : \A j \in i..Len(SpecsOf(b)) :
         PlainEntry(SpecsOf(b), i) =>
           /\ (SingleRetained(SpecsOf(b)[j])
                /\ NoExplicitBetween(SpecsOf(b), i, j)) =>
                 ValueOf(NameOf(SpecsOf(b)[j])) = PlainValue(SpecsOf(b), i)
           /\ (j > i /\ SingleRetained(SpecsOf(b)[j])
                /\ SpecsOf(b)[j].Values = <<iota>>) =>
                 ValueOf(NameOf(SpecsOf(b)[j])) = j - 1
  /\ blocks # <<>> =>
       \A i \in 1..Len(LastBlock) :
         (PlainEntry(LastBlock, i)
          /\ NoExplicitBetween(LastBlock, i, Len(LastBlock))) =>
           /\ state.lastExprType = exprTypePlain
           /\ state.lastValue = PlainValue(LastBlock, i)
           /\ state.iotaOp.nil

\* 2, then 2 - 2, then a continuation entry that repeats the 0
C19_Witness ==
  /\ blocks # <<>>
  /\ Len(LastBlock) = 3
  /\ PlainEntry(LastBlock, 1)
  /\ LastBlock[1].Values = <<Lit2>>
  /\ PlainEntry(LastBlock, 2)
  /\ LastBlock[2].Values = <<BinaryExpr(Lit2, SUB, Lit2)>>
  /\ SingleRetained(LastBlock[3])
  /\ LastBlock[3].Values = <<>>
  /\ ValueOf(NameOf(LastBlock[3])) = 0
  /\ state.lastExprType = exprTypePlain

\* ------------------------------------------------------------------ C20
\* none of: the counter, a convertible literal, a negated convertible
\* literal, a binary expression
Unrecognised(e) ==
  CASE e.node = "Ident" -> ~IsIotaIdent(e)
    [] e.node = "BasicLit" -> ~Convertible(e)
    [] e.node = "UnaryExpr" ->
         ~(e.Op = SUB /\ e.X.node = "BasicLit" /\ Convertible(e.X))
    [] e.node = "BinaryExpr" -> FALSE
    [] OTHER -> TRUE

\* the line last processed is a retained entry with such an expression
UnrecognisedLast ==
  /\ blocks # <<>>
  /\ LastBlock # <<>>
  /\ SingleRetained(LastBlock[Len(LastBlock)])
  /\ Len(LastBlock[Len(LastBlock)].Values) = 1
  /\ Unrecognised(LastBlock[Len(LastBlock)].Values[1])

LastName == NameOf(LastBlock[Len(LastBlock)])

\* C20: processing a retained entry whose expression is of no recognised
\* shape records the entry with value 0, raises no error and leaves the last
\* kind, the last value and the stored operation as they were (only the
\* counter advances)
C20_FallbackFrame ==
  [][(Len(AllSpecs') = Len(AllSpecs) + 1 /\ UnrecognisedLast') =>
       /\ Recorded(LastName)'
       /\ ValueOf(LastName)' = 0
       /\ err' = err
       /\ state' = [state EXCEPT !.iotaVal = @ + 1]]_vars

\* iota * 2, then the identifier x, then a continuation entry that still
\* follows iota * 2
C20_Witness ==
  /\ blocks # <<>>
  /\ Len(LastBlock) = 3
  /\ SingleRetained(LastBlock[1])
  /\ LastBlock[1].Values = <<BinaryExpr(iota, MUL, Lit2)>>
  /\ SingleRetained(LastBlock[2])
  /\ LastBlock[2].Values = <<OtherIdent>>
  /\ ValueOf(NameOf(LastBlock[2])) = 0
  /\ SingleRetained(LastBlock[3])
  /\ LastBlock[3].Values = <<>>
  /\ ValueOf(NameOf(LastBlock[3])) = 4
  /\ state.lastExprType = exprTypeIotaOp

\* ------------------------------------------------------------------ C17
\* the characters that are lowercase letters
LowercaseLetters == {"s", "t", "x", "U+00E9"}

NewCalled == pc # "new"

\* C17: New fails exactly when the type name is empty or its first character
\* is not a lowercase letter; when it succeeds the generator has the type
\* name and an empty values mapping
C17_NewValidation ==
  /\ NewCalled =>
       ((pc = "failed") <=>
          (typeArg = <<>> \/ typeArg[1] \notin LowercaseLetters))
  /\ pc = "ready" => g.Type = typeArg /\ DOMAIN g.values = {}

\* ------------------------------------------------------------------ C14
\* the character literals that denote exactly one Unicode scalar value, with
\* that value
ScalarOf(text) ==
  CASE text = <<"'", "A", "'">> -> 65
    [] text = <<"'", "B", "'">> -> 66
    [] text = <<"'", "a", "'">> -> 97
    [] text = <<"'", "0", "'">> -> 48
    [] text = <<"'", "\\", "n", "'">> -> 10
    [] text = <<"'", "\\", "'", "'">> -> 39
    [] text = <<"'", "\\", "x", "0", "0", "'">> -> 0
    [] text = <<"'", "\\", "x", "4", "1", "'">> -> 65
    [] text = <<"'", "\\", "u", "0", "0", "4", "1", "'">> -> 65
    [] text = <<"'", "\\", "u", "0", "0", "e", "9", "'">> -> 233
    [] text = <<"'", "\\", "u", "f", "f", "f", "d", "'">> -> 65533
    [] OTHER -> -1

\* C14: on a character literal ConvertLiteralToInt returns the code point
\* when the literal denotes exactly one valid Unicode scalar value, and
\* fails, returning 0, in every other case
C14_CharLiteral ==
  (convRes.returned /\ lit.Kind = "CHAR") =>
    IF ScalarOf(lit.Value) >= 0
    THEN ~convRes.err /\ convRes.val = ScalarOf(lit.Value)
    ELSE convRes.err /\ convRes.val = 0

\* ------------------------------------------------------------------ C15
\* the text is a base-10 integer: digits only, after an optional sign
Digits(text) == text # <<>> /\ \A i \in 1..Len(text) : IsDecDigit(text[i])

IsBase10(text) ==
  \/ Digits(text)
  \/ text # <<>> /\ Head(text) = "-" /\ Digits(Tail(text))

\* its value
RECURSIVE DecValue(_)
DecValue(digits) ==
  IF digits = <<>> THEN 0
  ELSE 10 * DecValue(SubSeq(digits, 1, Len(digits) - 1))
       + DigitVal(digits[Len(digits)])

Base10Value(text) ==
  IF Head(text) = "-" THEN -DecValue(Tail(text)) ELSE DecValue(text)

\* C15: on an integer literal ConvertLiteralToInt returns the base-10 value
\* of the text when the whole text is a base-10 integer and fails otherwise;
\* on a literal of any other kind than integer or character it fails
C15_IntLiteral ==
  convRes.returned =>
    /\ lit.Kind = "INT" =>
         IF IsBase10(lit.Value)
         THEN ~convRes.err /\ convRes.val = Base10Value(lit.Value)
         ELSE convRes.err /\ convRes.val = 0
    /\ lit.Kind \notin {"INT", "CHAR"} => convRes.err /\ convRes.val = 0

\* ------------------------------------------------------------------ C12
SecondDone == pc = "done" /\ run = 2

\* C12: Parse run a second time over the unchanged directory, by a fresh
\* generator or by the same one, leaves the same name-to-value mapping and
\* the same sequence of names ordered by position as the first run
C12_SameResult ==
  SecondDone =>
    /\ DOMAIN g.values = DOMAIN first
    /\ \A n \in DOMAIN first : ValueOf(n) = first[n].value
    /\ SortSlice(g.values, DOMAIN g.values) = SortSlice(first, DOMAIN first)

\* ------------------------------------------------------------------ C22
SingleOther(v) ==
  SingleName(v) /\ NameOf(v) # Underscore /\ ~HasPrefix(NameOf(v), g.Type)

\* C22: within a block the counter starts at 0 and, after k declaration
\* lines, equals exactly k, whether the lines bound retained names,
\* placeholders or names lacking the type prefix
C22_CounterCountsLines ==
  blocks # <<>> => state.iotaVal = Len(LastBlock)

\* three lines of a block: a retained name, a placeholder and a name lacking
\* the prefix
C22_Witness ==
  /\ blocks # <<>>
  /\ Len(LastBlock) = 3
  /\ SingleRetained(LastBlock[1])
  /\ SinglePlaceholder(LastBlock[2])
  /\ SingleOther(LastBlock[3])
  /\ state.iotaVal = 3

\* ------------------------------------------------------------------ C30
\* C30: in every reachable state of the walker an operation is stored exactly
\* when the last kind is counter-with-operation, and the last kind none
\* implies the last value 0; so whenever the last kind is bare counter or
\* plain literal no operation is stored
C30_StateShape ==
  /\ ~state.iotaOp.nil <=> state.lastExprType = exprTypeIotaOp
  /\ state.lastExprType = exprTypeNone => state.lastValue = 0
  /\ state.lastExprType \in {exprTypeIota, exprTypePlain} => state.iotaOp = NilOp

\* a literal line after a line that stored an operation
C30_Witness ==
  /\ blocks # <<>>
  /\ Len(LastBlock) = 2
  /\ SingleRetained(LastBlock[1])
  /\ LastBlock[1].Values = <<BinaryExpr(iota, MUL, Lit2)>>
  /\ SingleRetained(LastBlock[2])
  /\ LastBlock[2].Values = <<Lit2>>
  /\ state.lastExprType = exprTypePlain
  /\ state.iotaOp.nil

\* ------------------------------------------------------------------ C25
\* the line just processed: the last line of the block under way
LineAdded ==
  /\ blocks # <<>>
  /\ Len(blocks') = Len(blocks)
  /\ Len(blocks'[Len(blocks)].specs) = Len(LastBlock) + 1

NewLine == blocks'[Len(blocks)].specs[Len(LastBlock) + 1]

NoneRetained(v) ==
  \A i \in 1..Len(v.Names) : ~IsRetainedName(v.Names[i].Name)

\* no line of the block binds a retained name and carries an expression
NoAnchor(specs) ==
  \A i \in 1..Len(specs) : NoneRetained(specs[i]) \/ ~HasExplicit(specs[i])

\* C25: a line whose names are all placeholders or lack the type prefix
\* leaves the last kind, the last value, the stored operation and the
\* recorded values as they were, even when it carries an expression, and only
\* advances the counter; a continuation entry whose block has no earlier
\* retained entry with an expression resolves to 0
C25_SkippedLineFrame ==
  [][/\ LineAdded /\ NoneRetained(NewLine) =>
          /\ state' = [state EXCEPT !.iotaVal = @ + 1]
          /\ g' = g
     /\ LineAdded /\ SingleRetained(NewLine) /\ ~HasExplicit(NewLine)
        /\ NoAnchor(LastBlock) =>
          g'.values[NameOf(NewLine)].value = 0]_vars

\* a continuation entry after a placeholder line that carries a literal,
\* itself after an entry that stored an operation: the entry follows the
\* operation
C25_Witness ==
  /\ blocks # <<>>
  /\ Len(LastBlock) = 3
  /\ SingleRetained(LastBlock[1])
  /\ LastBlock[1].Values = <<BinaryExpr(iota, MUL, Lit2)>>
  /\ SinglePlaceholder(LastBlock[2])
  /\ LastBlock[2].Values = <<Lit2>>
  /\ SingleRetained(LastBlock[3])
  /\ ~HasExplicit(LastBlock[3])
  /\ ValueOf(NameOf(LastBlock[3])) = 4

\* ------------------------------------------------------------------ C21
\* parseConstBlock has been entered and has processed no line yet
BlockOpened == pc = "block" /\ blocks # <<>> /\ LastBlock = <<>>

\* vals being what the lines of a block yield when nothing was processed
\* before them: the values recorded for its retained names are those
AsRecorded(vals) ==
  \A n \in DOMAIN vals : Recorded(n) /\ ValueOf(n) = vals[n].value

BlockLocal(b) == AsRecorded(ConstBlock(blocks[b], g.Type, <<>>))

\* C21: the walker's state is scoped to one const block: at the start of
\* every block the counter is 0, the last kind is none, the last value is 0
\* and no operation is stored, and the values resolved for a block depend on
\* the lines of that block alone, never on a block processed before it
C21_BlockScoped ==
  /\ BlockOpened =>
       /\ state.iotaVal = 0
       /\ state.lastExprType = exprTypeNone
       /\ state.lastValue = 0
       /\ state.iotaOp.nil
  /\ \A b \in BlockIds : BlockLocal(b)

\* a continuation entry opening a block, after a block that stored an
\* operation and advanced the counter
C21_Witness ==
  /\ Len(blocks) = 2
  /\ Len(SpecsOf(1)) = 2
  /\ SingleRetained(SpecsOf(1)[1])
  /\ SpecsOf(1)[1].Values = <<BinaryExpr(Lit10, ADD, iota)>>
  /\ Len(SpecsOf(2)) = 1
  /\ SingleRetained(SpecsOf(2)[1])
  /\ ~HasExplicit(SpecsOf(2)[1])
  /\ ValueOf(NameOf(SpecsOf(2)[1])) = 0
  /\ state.iotaVal = 1

\* ------------------------------------------------------------------ C29
\* the walker holds an operation 'literal / counter'
StoredDivision ==
  ~state.iotaOp.nil /\ state.iotaOp.op = QUO /\ ~state.iotaOp.iotaOnLeft

\* an entry with an explicit expression dividing by the counter
DividesByCounter(v) ==
  /\ ~NoneRetained(v)
  /\ HasExplicit(v)
  /\ v.Values[1].node = "BinaryExpr"
  /\ v.Values[1].Op = QUO
  /\ IsIotaIdent(v.Values[1].Y)

\* C29: during Parse an operation 'literal / counter' is held only after an
\* explicit expression of a line at tick 1 or later stored it (at tick 0 the
\* evaluation fails and nothing is stored), so the counter is at least 2
\* whenever a continuation replays it: the replay never divides by a counter
\* at 0
C29_NoReplayAtZero ==
  StoredDivision =>
    /\ \E i \in 2..Len(LastBlock) : DividesByCounter(LastBlock[i])
    /\ state.iotaVal >= 2

\* 10 / iota written at tick 1 and replayed by a continuation at tick 2
C29_Witness ==
  /\ blocks # <<>>
  /\ Len(LastBlock) = 3
  /\ SingleRetained(LastBlock[2])
  /\ LastBlock[2].Values = <<BinaryExpr(Lit10, QUO, iota)>>
  /\ ValueOf(NameOf(LastBlock[2])) = 10
  /\ SingleRetained(LastBlock[3])
  /\ ~HasExplicit(LastBlock[3])
  /\ ValueOf(NameOf(LastBlock[3])) = 5
  /\ StoredDivision

\* ------------------------------------------------------------------ C24
\* C24: for every binary expression that uses the counter and every tick at
\* which its evaluation succeeds, the operation stored for it, replayed at
\* that tick, returns the value of the evaluation, expressions with the
\* counter on both sides included
C24_ReplayMatches == replay.called => replay.value = evalRes.value

\* ------------------------------------------------------------------ C23
\* the names bound in file f of the directory
NamesOfSpec(v) == {v.Names[k].Name : k \in 1..Len(v.Names)}

NamesOfBlock(b) == UNION {NamesOfSpec(SpecsOf(b)[i]) : i \in 1..Len(SpecsOf(b))}

NamesOfFile(f) ==
  UNION {NamesOfBlock(b) : b \in {c \in BlockIds : blocks[c].file = f}}

DistinctAcrossFiles == NamesOfFile(1) \cap NamesOfFile(2) = {}

\* what visiting file 1 and then file 2 leaves in a new generator
InFileOrder ==
  Inspect(FileDecls(blocks, 2), g.Type,
          Inspect(FileDecls(blocks, 1), g.Type, <<>>))

\* the files were visited in the order 2, 1
ReverseOrderDone == pc = "done" /\ run = 1 /\ file = 1

\* C23: provided no name is bound in two files, the mapping from names to
\* value and position that Parse leaves, and with it the position-sorted
\* output, is the same for every order in which the files are visited
C23_OrderIndependent ==
  pc = "done" /\ DistinctAcrossFiles =>
    /\ g.values = InFileOrder
    /\ SortSlice(g.values, DOMAIN g.values)
         = SortSlice(InFileOrder, DOMAIN InFileOrder)

\* file 2 was visited before file 1, each binding a name of its own
C23_Witness ==
  /\ ReverseOrderDone
  /\ DistinctAcrossFiles
  /\ Cardinality(DOMAIN g.values) = 2
  /\ g.values = InFileOrder

\* ------------------------------------------------------------------ C27
\* the name of a constant without the type prefix
CanonicalName(n) == TrimPrefix(n, g.Type)

SameFold(a, b) == ToLower(a) = ToLower(b)

\* every alias attached to a constant: the constant and the index of the alias
Attached ==
  UNION {{<<n, i>> : i \in 1..Len(g.values[n].aliases)} : n \in DOMAIN g.values}

AliasAt(p) == g.values[p[1]].aliases[p[2]]

\* the alias equals the canonical name of another constant
Conflicting(p) ==
  \E m \in DOMAIN g.values \ {p[1]} : SameFold(AliasAt(p), CanonicalName(m))

AliasFault ==
  \/ \E p \in Attached : Conflicting(p)
  \/ \E p, q \in Attached :
       /\ p # q
       /\ ~Conflicting(p) /\ ~Conflicting(q)
       /\ SameFold(AliasAt(p), AliasAt(q))

\* C27: Generate fails on alias validation exactly when some alias equals,
\* whatever the case, the canonical name of a different constant, or the
\* same alias, whatever the case, is attached more than once among the
\* aliases that passed that check; an alias equal to the canonical name of
\* its own constant is accepted, and the outcome does not depend on the
\* order of the iteration over the values
C27_AliasValidation ==
  out.called => (out.err = "invalid aliases" <=> AliasFault)

\* ------------------------------------------------------------------ C26
ValidationSteps == <<"validateAliases", "unique values", "template", "format">>

ValidationErrors ==
  {"invalid aliases", "multiple names for value",
   "failed to execute template", "failed to format source"}

\* Generate has returned
Generated == pc \in {"generated", "exited", "returned"}

\* C26: Generate creates the output directory and writes the output file only
\* after alias validation, the check for names sharing a value, the
\* execution of the template and the formatting of the source have all
\* succeeded, in that order; when one of them fails Generate returns the
\* error and has neither created the directory nor written a file
C26_WriteAfterValidation ==
  /\ gen.dir \/ gen.file =>
       Len(gen.steps) >= 4 /\ SubSeq(gen.steps, 1, 4) = ValidationSteps
  /\ gen.file => gen.steps[Len(gen.steps)] = "WriteFile"
  /\ \A i \in 1..Len(gen.steps) : i <= 4 => gen.steps[i] = ValidationSteps[i]
  /\ out.err \in ValidationErrors =>
       Generated /\ ~gen.dir /\ ~gen.file /\ Len(gen.steps) < 4

\* the file written into a directory Generate created, after every check
C26_Witness ==
  /\ Generated
  /\ out.err = "nil"
  /\ g.Path # ""
  /\ gen.dir
  /\ gen.file
  /\ gen.steps = ValidationSteps \o <<"MkdirAll", "WriteFile">>

\* ------------------------------------------------------------------ C28
HelpOrVersion == cli.help \/ cli.version

\* New, Parse or Generate has returned an error
NewFailed == pc # "flags" /\ pc # "new" /\ ~HelpOrVersion /\ g = NoGenerator
ParseFailed == err # "nil"
GenerateFailed == out.called /\ out.err # "nil"

\* C28: the command exits with 0 on -help or -version without parsing or
\* generating; it exits with 1 when New, Parse or Generate fails and never
\* calls Generate after New or Parse failed; when all three succeed it makes
\* no exit call and the output file exists
C28_ExitCodes ==
  /\ HelpOrVersion =>
       /\ pc = "exited" /\ cli.exited /\ cli.code = 0
       /\ g = NoGenerator /\ visited = {} /\ err = "nil"
       /\ ~out.called /\ ~gen.file
  /\ NewFailed => pc = "exited" /\ cli.exited /\ cli.code = 1 /\ ~out.called
  /\ ParseFailed =>
       /\ pc \in {"done", "exited"}
       /\ pc = "exited" => cli.exited /\ cli.code = 1
       /\ ~out.called
  /\ GenerateFailed =>
       /\ pc \in {"generated", "exited"}
       /\ pc = "exited" => cli.exited /\ cli.code = 1
  /\ pc = "exited" /\ cli.code = 1 =>
       ~HelpOrVersion /\ (NewFailed \/ ParseFailed \/ GenerateFailed)
  /\ pc = "returned" =>
       /\ ~cli.exited
       /\ ~NewFailed /\ ~ParseFailed /\ ~GenerateFailed
       /\ out.called /\ gen.file
  /\ cli.exited <=> pc = "exited"

\* the command has returned after Generate wrote the file, without an exit
\* call
C28_Witness ==
  /\ pc = "returned"
  /\ ~cli.exited
  /\ gen.file
  /\ out.err = "nil"
  /\ DOMAIN g.values # {}

====
